---- MODULE Spec2Model ----
(***************************************************************************)
(* CanvasHelper backend: the schedule-model service of backend/main.py     *)
(* (load_schedule_model, /api/train, /api/reload_model, /api/predict) and  *)
(* the training run of backend/train_model.py; and the feature builder,    *)
(* the script backend/scraping_data.py, which runs on its own.             *)
(*                                                                         *)
(* The Flask development server (app.run, main.py:371) serves every        *)
(* request on its own thread, so the three routes run interleaved.  Each   *)
(* action below is one stretch of a handler between two accesses to the    *)
(* state the threads share: the global SCHEDULE_MODEL, the two files under *)
(* MODELS_DIR and the two files training writes.                           *)
(***************************************************************************)
EXTENDS Integers, Sequences, FiniteSets, TLC

VARIABLES
    SCHEDULE_MODEL,   \* main.py:61, the global holding the loaded pipeline
    artifact,         \* the file at SCHEDULE_MODEL_PATH
    metricsFile,      \* the file training_metrics.json under MODELS_DIR
    ld,               \* per caller: the position inside load_schedule_model
    train,            \* the thread serving /api/train
    reload,           \* the thread serving /api/reload_model
    predict,          \* the thread serving /api/predict
    nruns,            \* training runs started so far
    build,            \* the run of the script backend/scraping_data.py
    MODEL_OUT_DIR,    \* train_model.py:34, the directory training writes to
    paginated         \* a call of _get_paginated, utils/canvas_requests.py

vars == <<SCHEDULE_MODEL, artifact, metricsFile, ld, train, reload, predict, nruns,
          build, MODEL_OUT_DIR, paginated>>

----------------------------------------------------------------------------
(* Bounds of the model.                                                    *)

\* training runs one behaviour may start
MaxRuns == 2
\* records in one prediction batch
MaxBatch == 2

----------------------------------------------------------------------------
(* JSON values as Python sees them after request.get_json.  A key that a   *)
(* record does not hold is AbsentV; JSON null is NullV (Python None).      *)

AbsentV == [t |-> "absent", n |-> 0, s |-> ""]
NullV   == [t |-> "null",   n |-> 0, s |-> ""]
Num(k)  == [t |-> "num",    n |-> k, s |-> ""]
Str(x)  == [t |-> "str",    n |-> 0, s |-> x]

\* dict.get(key, default): the default only when the key is missing
Get(a, key, default) == IF a[key].t = "absent" THEN default ELSE a[key]

\* Python truth value of a JSON value: None, 0 and "" are false
Truthy(v) ==
    CASE v.t = "num" -> v.n # 0
      [] v.t = "str" -> v.s # ""
      [] OTHER       -> FALSE

\* Python `x or y`
Or(x, y) == IF Truthy(x) THEN x ELSE y

(* Python floats: a finite number, inf or nan.                             *)
Fin(k)   == [k |-> "fin", n |-> k]
FloatInf == [k |-> "inf", n |-> 0]
FloatNaN == [k |-> "nan", n |-> 0]

Raised(dummy) == [ok |-> FALSE, f |-> dummy]
Value(x)      == [ok |-> TRUE,  f |-> x]

\* float(str): the strings that parse, every other string is a ValueError
ParseFloat(x) ==
    CASE x = "70"  -> Value(Fin(70))
      [] x = "inf" -> Value(FloatInf)
      [] x = "nan" -> Value(FloatNaN)
      [] OTHER     -> Raised(Fin(0))

\* float(v): numbers convert, strings are parsed, None is a TypeError
Float(v) ==
    CASE v.t = "num" -> Value(Fin(v.n))
      [] v.t = "str" -> ParseFloat(v.s)
      [] OTHER       -> Raised(Fin(0))

----------------------------------------------------------------------------
(* The keys route_predict reads from a record.                             *)

Keys == {"weight", "weight_percent", "vle_count_total", "vle_count",
         "past_avg_score", "past_score", "student_past_avg",
         "assessment_type", "type",
         "assignment_id", "id", "assignment", "name", "assignment_name"}

EmptyRecord == [k \in Keys |-> AbsentV]

\* default of past_avg_score, main.py:337
DefaultPast == 50

NoRow == [weight |-> Fin(0), vle_count_total |-> Fin(0),
          past_avg_score |-> Fin(0), assessment_type |-> NullV]

\* ResolveWeight reading the canonical key only
ResolveWeightNoAlias(a) == Or(Get(a, "weight", Num(0)), Num(0))

\* main.py:333
ResolveWeight(a) == Or(Get(a, "weight", Get(a, "weight_percent", Num(0))), Num(0))

\* main.py:334
ResolveVle(a) == Or(Get(a, "vle_count_total", Get(a, "vle_count", Num(0))), Num(0))

\* main.py:335-337
ResolvePast(a) ==
    LET past == Get(a, "past_avg_score", Get(a, "past_score", NullV))
    IN  IF past.t = "null" THEN Get(a, "student_past_avg", Num(DefaultPast)) ELSE past

\* main.py:338
ResolveType(a) ==
    Or(Get(a, "assessment_type", Get(a, "type", Str("unknown"))), Str("unknown"))

\* main.py:333-345, one pass of the loop: the feature row, or the exception
\* of a float() that fails
NormalizeRecord(a) ==
    LET w == Float(ResolveWeight(a))
        v == Float(ResolveVle(a))
        p == Float(ResolvePast(a))
    IN  IF w.ok /\ v.ok /\ p.ok
        THEN [raised |-> FALSE,
              row |-> [weight |-> w.f, vle_count_total |-> v.f,
                       past_avg_score |-> p.f,
                       assessment_type |-> ResolveType(a)]]
        ELSE [raised |-> TRUE, row |-> NoRow]

\* main.py:331-345, the whole loop
NormalizeBatch(raw) ==
    LET each == [i \in 1..Len(raw) |-> NormalizeRecord(raw[i])]
    IN  IF \E i \in 1..Len(raw) : each[i].raised
        THEN [raised |-> TRUE, rows |-> <<>>]
        ELSE [raised |-> FALSE, rows |-> [i \in 1..Len(raw) |-> each[i].row]]

----------------------------------------------------------------------------
(* The fitted pipeline and the files of backend/models.                    *)

\* train_model.py:50-58, the candidate feature columns in the order tested
Candidates == <<"weight", "vle_count_total", "past_avg_score", "assessment_type">>

\* train_model.py:60
Label == "assignment_hours"

\* Python None in SCHEDULE_MODEL
None == [isNone |-> TRUE, run |-> 0, features |-> <<>>]

\* the pipeline object fitted by training run r on the feature columns fs
Pipeline(r, fs) == [isNone |-> FALSE, run |-> r, features |-> fs]

HasFeature(model, f) == \E i \in 1..Len(model.features) : model.features[i] = f

\* a file that does not exist
NoFile == [state |-> "absent", model |-> None]

\* a file opened for writing and not yet closed: truncated, or holding a
\* prefix of the pickle of model m
PartialFile(m) == [state |-> "partial", model |-> m]

\* a file holding the whole pickle of model m
CompleteFile(m) == [state |-> "complete", model |-> m]

\* Path(SCHEDULE_MODEL_PATH).exists(), main.py:71
PathExists(file) == file.state # "absent"

\* joblib.load(SCHEDULE_MODEL_PATH), main.py:72: the unpickled object, or
\* the exception of a pickle that is cut short
JoblibLoad(file) ==
    IF file.state = "complete"
    THEN [raised |-> FALSE, model |-> file.model]
    ELSE [raised |-> TRUE, model |-> None]

----------------------------------------------------------------------------
(* Scoring.  Estimates are counted in thousandths of an hour, the rounded  *)
(* results in hundredths.                                                  *)

NumericPart(f) == IF f.k = "fin" THEN f.n ELSE 0

\* the one-hot block of the categorical column: a category the encoder
\* never saw is the all-zero vector (handle_unknown="ignore")
CategoryPart(v) ==
    CASE v.t = "str" /\ v.s = "Homework" -> 1
      [] v.t = "str" /\ v.s = "Quiz"     -> 2
      [] OTHER                           -> 0

\* the fitted pipeline applied to one row: a fixed function of the run that
\* fitted it and of the columns it was fitted on (remainder="drop",
\* train_model.py:94-98)
Estimate(model, row) ==
    1000 * model.run + 255
    + (IF HasFeature(model, "weight") THEN 60 * NumericPart(row.weight) ELSE 0)
    + (IF HasFeature(model, "vle_count_total")
       THEN 35 * NumericPart(row.vle_count_total) ELSE 0)
    + (IF HasFeature(model, "past_avg_score")
       THEN 3 * NumericPart(row.past_avg_score) ELSE 0)
    + (IF HasFeature(model, "assessment_type")
       THEN CategoryPart(row.assessment_type) ELSE 0)

NumericCandidates == {"weight", "vle_count_total", "past_avg_score"}

\* the input validation of the numeric branch rejects an infinite value
RejectsRow(model, row) ==
    \E f \in NumericCandidates : HasFeature(model, f) /\ row[f].k = "inf"

\* SCHEDULE_MODEL.predict(X), main.py:348-351: one estimate per row, or an
\* exception: no attribute predict on None, a frame without columns (an
\* empty batch), an infinite value in a numeric column
ModelPredict(model, rows) ==
    IF \/ model.isNone
       \/ Len(rows) = 0
       \/ \E i \in 1..Len(rows) : RejectsRow(model, rows[i])
    THEN [raised |-> TRUE, preds |-> <<>>]
    ELSE [raised |-> FALSE,
          preds |-> [i \in 1..Len(rows) |-> Estimate(model, rows[i])]]

\* round(p, 2) on thousandths, ties to even; main.py:362
Round2(milli) ==
    LET q == milli \div 10
        r == milli % 10
    IN  IF r < 5 THEN q
        ELSE IF r > 5 THEN q + 1
        ELSE IF q % 2 = 0 THEN q ELSE q + 1

Min(a, b) == IF a < b THEN a ELSE b

\* ResultId trying "id" before "assignment_id"
ResultIdWrongOrder(orig) ==
    Or(Get(orig, "id", NullV),
       Or(Get(orig, "assignment_id", NullV), Get(orig, "assignment", NullV)))

\* main.py:360
ResultId(orig) ==
    Or(Get(orig, "assignment_id", NullV),
       Or(Get(orig, "id", NullV), Get(orig, "assignment", NullV)))

\* main.py:361
ResultName(orig) ==
    Or(Get(orig, "assignment", NullV),
       Or(Get(orig, "name", NullV), Get(orig, "assignment_name", NullV)))

\* PredictOut leaving out the last record
PredictOutDropLast(raw, preds) ==
    [i \in 1..(Min(Len(raw), Len(preds)) - 1) |->
        [assignment_id   |-> ResultId(raw[i]),
         assignment      |-> ResultName(raw[i]),
         predicted_hours |-> Round2(preds[i])]]

\* main.py:357-363, zip(raw_assignments, preds)
PredictOut(raw, preds) ==
    [i \in 1..Min(Len(raw), Len(preds)) |->
        [assignment_id   |-> ResultId(raw[i]),
         assignment      |-> ResultName(raw[i]),
         predicted_hours |-> Round2(preds[i])]]

----------------------------------------------------------------------------
(* Responses.  kind names the body, code is the HTTP status, details says  *)
(* whether the body carries a "details" field.                             *)

NoResp == [kind |-> "none", code |-> 0, details |-> FALSE, out |-> <<>>]

\* _json_error, main.py:94-98
JsonError(kind, code, details) ==
    [kind |-> kind, code |-> code, details |-> details, out |-> <<>>]

\* an exception that leaves the view function: Flask's own 500 page
Unhandled == [kind |-> "unhandled", code |-> 500, details |-> FALSE, out |-> <<>>]

\* _json_ok({"predictions": out}), main.py:365
Predictions(out) == [kind |-> "ok", code |-> 200, details |-> FALSE, out |-> out]

\* a request body: has says whether it is a non-empty object with the key
\* "assignments"
NoAssignments == [has |-> FALSE, assignments |-> <<>>]
Batch(raw) == [has |-> TRUE, assignments |-> raw]

\* PredictEntry with the records normalised before the model is looked at
PredictEntryNormalizeFirst(body, model) ==
    IF ~body.has
    THEN [next |-> "done", rows |-> <<>>,
          resp |-> JsonError("bad_request", 400, FALSE)]
    ELSE LET norm == NormalizeBatch(body.assignments)
         IN  IF norm.raised
             THEN [next |-> "done", rows |-> <<>>, resp |-> Unhandled]
             ELSE IF model.isNone
             THEN [next |-> "done", rows |-> <<>>,
                   resp |-> JsonError("not_ready", 503, FALSE)]
             ELSE [next |-> "score", rows |-> norm.rows, resp |-> NoResp]

\* main.py:323-345: up to the end of normalisation.  model is the value of
\* SCHEDULE_MODEL that line 327 reads.
PredictEntry(body, model) ==
    IF ~body.has
    THEN [next |-> "done", rows |-> <<>>,
          resp |-> JsonError("bad_request", 400, FALSE)]
    ELSE IF model.isNone
    THEN [next |-> "done", rows |-> <<>>,
          resp |-> JsonError("not_ready", 503, FALSE)]
    ELSE LET norm == NormalizeBatch(body.assignments)
         IN  IF norm.raised
             THEN [next |-> "done", rows |-> <<>>, resp |-> Unhandled]
             ELSE [next |-> "score", rows |-> norm.rows, resp |-> NoResp]

\* main.py:347-365.  model is the value of SCHEDULE_MODEL that line 351
\* reads.
PredictFinish(raw, rows, model) ==
    LET scored == ModelPredict(model, rows)
    IN  IF scored.raised
        THEN JsonError("scoring_failure", 500, TRUE)
        ELSE Predictions(PredictOut(raw, scored.preds))

----------------------------------------------------------------------------
(* load_schedule_model, main.py:64-82.  It is called at import (caller     *)
(* "main"), by route_reload_model and by route_train.                      *)

LoadCallers == {"main", "reload", "train"}

LoadOff      == [pc |-> "off",    loaded |-> None, ret |-> "unset"]
LoadEntered  == [pc |-> "exists", loaded |-> None, ret |-> "unset"]

\* LoadFailure returning the path all the same
LoadFailureReturnsPath == [model |-> None, ret |-> "path"]

\* main.py:75-78 and 79-82: what a failed attempt leaves in the global and
\* returns
LoadFailure == [model |-> None, ret |-> "none"]

\* main.py:72-74: what a successful attempt leaves in the global and returns
LoadSuccess(m) == [model |-> m, ret |-> "path"]

\* the service answers requests once the import of main.py is over
Serving == ld["main"].pc = "ret"

\* main.py:71, and the else branch 75-78
LoadCheckExists(c) ==
    /\ ld[c].pc = "exists"
    /\ IF PathExists(artifact)
       THEN /\ ld' = [ld EXCEPT ![c].pc = "read"]
            /\ UNCHANGED SCHEDULE_MODEL
       ELSE /\ SCHEDULE_MODEL' = LoadFailure.model
            /\ ld' = [ld EXCEPT ![c] = [pc |-> "ret", loaded |-> None,
                                        ret |-> LoadFailure.ret]]
    /\ UNCHANGED <<artifact, metricsFile, train, reload, predict, nruns,
                   build, MODEL_OUT_DIR, paginated>>

\* LoadRead leaving the global as it is when joblib.load raises
LoadReadKeeping(c) ==
    /\ ld[c].pc = "read"
    /\ LET r == JoblibLoad(artifact)
       IN  IF r.raised
           THEN ld' = [ld EXCEPT ![c] = [pc |-> "ret", loaded |-> None,
                                         ret |-> LoadFailure.ret]]
           ELSE ld' = [ld EXCEPT ![c] = [pc |-> "assign", loaded |-> r.model,
                                         ret |-> "unset"]]
    /\ UNCHANGED <<SCHEDULE_MODEL, artifact, metricsFile, train, reload, predict,
                   nruns, build, MODEL_OUT_DIR, paginated>>

\* main.py:72, the call of joblib.load, and the handler 79-82
LoadRead(c) ==
    /\ ld[c].pc = "read"
    /\ LET r == JoblibLoad(artifact)
       IN  IF r.raised
           THEN /\ SCHEDULE_MODEL' = LoadFailure.model
                /\ ld' = [ld EXCEPT ![c] = [pc |-> "ret", loaded |-> None,
                                            ret |-> LoadFailure.ret]]
           ELSE /\ ld' = [ld EXCEPT ![c] = [pc |-> "assign", loaded |-> r.model,
                                            ret |-> "unset"]]
                /\ UNCHANGED SCHEDULE_MODEL
    /\ UNCHANGED <<artifact, metricsFile, train, reload, predict, nruns,
                   build, MODEL_OUT_DIR, paginated>>

\* main.py:72-74, the store into the global and the return
LoadAssign(c) ==
    /\ ld[c].pc = "assign"
    /\ SCHEDULE_MODEL' = LoadSuccess(ld[c].loaded).model
    /\ ld' = [ld EXCEPT ![c].pc = "ret", ![c].ret = LoadSuccess(ld[c].loaded).ret]
    /\ UNCHANGED <<artifact, metricsFile, train, reload, predict, nruns,
                   build, MODEL_OUT_DIR, paginated>>

----------------------------------------------------------------------------
(* /api/reload_model, main.py:296-305.                                     *)

ReloadIdle == [pc |-> "idle", resp |-> NoResp, path |-> FALSE]

\* main.py:299, the call
ReloadRecv ==
    /\ Serving
    /\ reload.pc = "idle"
    /\ reload' = [reload EXCEPT !.pc = "loading"]
    /\ ld' = [ld EXCEPT !["reload"] = LoadEntered]
    /\ UNCHANGED <<SCHEDULE_MODEL, artifact, metricsFile, train, predict, nruns,
                   build, MODEL_OUT_DIR, paginated>>

\* main.py:300-302: the response for the value load_schedule_model returned
ReloadResponse(ret) ==
    IF ret = "none"
    THEN [pc |-> "done", resp |-> JsonError("reload_failed", 500, FALSE),
          path |-> FALSE]
    ELSE [pc |-> "done",
          resp |-> [kind |-> "reloaded", code |-> 200, details |-> FALSE,
                    out |-> <<>>],
          path |-> TRUE]

\* main.py:299-302, from the return of the call on
ReloadRespond ==
    /\ reload.pc = "loading"
    /\ ld["reload"].pc = "ret"
    /\ reload' = ReloadResponse(ld["reload"].ret)
    /\ ld' = [ld EXCEPT !["reload"] = LoadOff]
    /\ UNCHANGED <<SCHEDULE_MODEL, artifact, metricsFile, train, predict, nruns,
                   build, MODEL_OUT_DIR, paginated>>

\* the response is sent and the thread takes the next request
ReloadReturn ==
    /\ reload.pc = "done"
    /\ reload' = ReloadIdle
    /\ UNCHANGED <<SCHEDULE_MODEL, artifact, metricsFile, ld, train, predict, nruns,
                   build, MODEL_OUT_DIR, paginated>>

----------------------------------------------------------------------------
(* /api/predict, main.py:309-365.                                          *)

PredictIdle == [pc |-> "idle", body |-> NoAssignments, rows |-> <<>>,
                resp |-> NoResp]

\* main.py:323-345 for a request whose body is drawn from bodies
PredictRecv(bodies) ==
    /\ Serving
    /\ predict.pc = "idle"
    /\ \E body \in bodies :
          LET e == PredictEntry(body, SCHEDULE_MODEL)
          IN  predict' = [pc |-> e.next, body |-> body, rows |-> e.rows,
                          resp |-> e.resp]
    /\ UNCHANGED <<SCHEDULE_MODEL, artifact, metricsFile, ld, train, reload, nruns,
                   build, MODEL_OUT_DIR, paginated>>

\* PredictScore dropping the model when scoring fails
PredictScoreClearing ==
    /\ predict.pc = "score"
    /\ LET resp == PredictFinish(predict.body.assignments, predict.rows,
                                 SCHEDULE_MODEL)
       IN  /\ predict' = [predict EXCEPT !.pc = "done", !.resp = resp]
           /\ SCHEDULE_MODEL' = IF resp.kind = "scoring_failure" THEN None
                                ELSE SCHEDULE_MODEL
    /\ UNCHANGED <<artifact, metricsFile, ld, train, reload, nruns,
                   build, MODEL_OUT_DIR, paginated>>

\* main.py:347-365
PredictScore ==
    /\ predict.pc = "score"
    /\ predict' = [predict EXCEPT
                     !.pc = "done",
                     !.resp = PredictFinish(predict.body.assignments,
                                            predict.rows, SCHEDULE_MODEL)]
    /\ UNCHANGED <<SCHEDULE_MODEL, artifact, metricsFile, ld, train, reload, nruns,
                   build, MODEL_OUT_DIR, paginated>>

\* the response is sent and the thread takes the next request
PredictReturn ==
    /\ predict.pc = "done"
    /\ predict' = PredictIdle
    /\ UNCHANGED <<SCHEDULE_MODEL, artifact, metricsFile, ld, train, reload, nruns,
                   build, MODEL_OUT_DIR, paginated>>

----------------------------------------------------------------------------
(* train_model.main, train_model.py:45-166, and /api/train, main.py:270-293 *)

\* train_model.py:28-32, the candidate data files by position in DATA_PATHS
DataPaths == {1, 2, 3}

\* the columns a training CSV may hold
Columns == {"weight", "vle_count_total", "past_avg_score", "assessment_type",
            "assignment_hours"}

\* train_model.py:39-43: the first candidate that exists, 0 for the
\* FileNotFoundError
find_data_file(existing) ==
    IF existing = {} THEN 0
    ELSE CHOOSE p \in existing : \A q \in existing : p <= q

\* train_model.py:50-58
ExpectedFeatures(cols) == SelectSeq(Candidates, LAMBDA c : c \in cols)

\* SelectFeatures without the test for the label column
SelectFeaturesNoLabelCheck(cols) ==
    IF ExpectedFeatures(cols) = <<>>
    THEN [raised |-> TRUE, features |-> <<>>]
    ELSE [raised |-> FALSE, features |-> ExpectedFeatures(cols)]

\* train_model.py:60-64: the two KeyErrors, or the feature list
SelectFeatures(cols) ==
    IF Label \notin cols
    THEN [raised |-> TRUE, features |-> <<>>]
    ELSE IF ExpectedFeatures(cols) = <<>>
    THEN [raised |-> TRUE, features |-> <<>>]
    ELSE [raised |-> FALSE, features |-> ExpectedFeatures(cols)]

NoMetrics == [state |-> "absent", run |-> 0, data_file |-> 0, features |-> <<>>,
              cv |-> FALSE, importances |-> FALSE]

\* MetricsOf keeping the cross-validation and importance entries of the
\* report it overwrites where the run has none
MetricsOfMerging(t) ==
    [state |-> "complete", run |-> t.run, data_file |-> t.data_fp,
     features |-> t.features, cv |-> t.cv \/ metricsFile.cv,
     importances |-> t.fi \/ metricsFile.importances]

\* train_model.py:152-166, the report of one run; cv and importances say
\* whether cv_r2_mean/cv_r2_std and feature_importances are present
MetricsOf(t) ==
    [state |-> "complete", run |-> t.run, data_file |-> t.data_fp,
     features |-> t.features, cv |-> t.cv, importances |-> t.fi]

TrainIdle == [pc |-> "idle", run |-> 0, data_fp |-> 0, cols |-> {},
              features |-> <<>>, fitted |-> FALSE, cv |-> FALSE, fi |-> FALSE,
              resp |-> NoResp, metrics |-> NoMetrics]

\* a failed run answered as a successful one
TrainFailedAsTrained(t) ==
    [t EXCEPT !.pc = "done",
              !.resp = [kind |-> "trained", code |-> 200, details |-> FALSE,
                        out |-> <<>>]]

\* main.py:290-293
TrainFailed(t) ==
    [t EXCEPT !.pc = "done", !.resp = JsonError("train_failed", 500, TRUE)]

\* main.py:276-278, the request and the call of train_model.main
TrainRecv ==
    /\ Serving
    /\ train.pc = "idle"
    /\ nruns < MaxRuns
    /\ nruns' = nruns + 1
    /\ train' = [TrainIdle EXCEPT !.pc = "find", !.run = nruns + 1]
    /\ UNCHANGED <<SCHEDULE_MODEL, artifact, metricsFile, ld, reload, predict,
                   build, MODEL_OUT_DIR, paginated>>

\* train_model.py:46, for the data files that exist on disk, one of disks
TrainFind(disks) ==
    /\ train.pc = "find"
    /\ \E existing \in disks :
          LET fp == find_data_file(existing)
          IN  train' = IF fp = 0 THEN TrainFailed(train)
                       ELSE [train EXCEPT !.pc = "read", !.data_fp = fp]
    /\ UNCHANGED <<SCHEDULE_MODEL, artifact, metricsFile, ld, reload, predict, nruns,
                   build, MODEL_OUT_DIR, paginated>>

\* train_model.py:47-64, for a CSV holding the columns cols, one of datasets
TrainSelect(datasets) ==
    /\ train.pc = "read"
    /\ \E cols \in datasets :
          LET sel == SelectFeatures(cols)
          IN  train' = IF sel.raised
                       THEN TrainFailed([train EXCEPT !.cols = cols])
                       ELSE [train EXCEPT !.pc = "fit", !.cols = cols,
                                          !.features = sel.features]
    /\ UNCHANGED <<SCHEDULE_MODEL, artifact, metricsFile, ld, reload, predict, nruns,
                   build, MODEL_OUT_DIR, paginated>>

\* how the library calls of train_model.py:66-146 end: fit says whether
\* split, fit and evaluation return, cv and fi whether cross_val_score and
\* the importance extraction do
FitOutcome(fit, cv, fi) == [fit |-> fit, cv |-> cv, fi |-> fi]

\* every way they can end: cross-validation and importances fail on their own
AllFitOutcomes ==
    {FitOutcome(FALSE, FALSE, FALSE)}
    \cup {FitOutcome(TRUE, cv, fi) : cv \in BOOLEAN, fi \in BOOLEAN}

\* TrainFit with a failure of cross-validation or of the importance
\* extraction raised out of the run
TrainFitAborting(outcomes) ==
    /\ train.pc = "fit"
    /\ \E o \in outcomes :
          train' = IF ~o.fit THEN TrainFailed(train)
                   ELSE IF ~(o.cv /\ o.fi)
                   THEN TrainFailed([train EXCEPT !.fitted = TRUE])
                   ELSE [train EXCEPT !.pc = "dump", !.fitted = TRUE,
                                      !.cv = o.cv, !.fi = o.fi]
    /\ UNCHANGED <<SCHEDULE_MODEL, artifact, metricsFile, ld, reload, predict, nruns,
                   build, MODEL_OUT_DIR, paginated>>

\* train_model.py:66-146: split, fit and evaluate, which may raise; then
\* cross-validation and feature importances, each best-effort
TrainFit(outcomes) ==
    /\ train.pc = "fit"
    /\ \E o \in outcomes :
          train' = IF ~o.fit THEN TrainFailed(train)
                   ELSE [train EXCEPT !.pc = "dump", !.fitted = TRUE,
                                      !.cv = o.cv, !.fi = o.fi]
    /\ UNCHANGED <<SCHEDULE_MODEL, artifact, metricsFile, ld, reload, predict, nruns,
                   build, MODEL_OUT_DIR, paginated>>

\* train_model.py:34-37 and config.py:31-37,50,64: training writes
\* schedule_model.pkl and training_metrics.json into backend/models under
\* the working directory; the service reads them under MODELS_DIR, which is
\* MODEL_DIR of the environment and, without it, the directory models
\* beside config.py.  Where the two are one directory the files training
\* writes are artifact and metricsFile; where they are not, they are the
\* files held here.
SharedDir == [separate |-> FALSE, artifact |-> NoFile, metricsFile |-> NoMetrics]
SeparateDir == [separate |-> TRUE, artifact |-> NoFile, metricsFile |-> NoMetrics]

\* train_model.py:149, joblib.dump opens MODEL_OUT_PATH for writing
TrainDumpOpen ==
    /\ train.pc = "dump"
    /\ LET file == PartialFile(Pipeline(train.run, train.features))
       IN  IF MODEL_OUT_DIR.separate
           THEN /\ MODEL_OUT_DIR' = [MODEL_OUT_DIR EXCEPT !.artifact = file]
                /\ UNCHANGED artifact
           ELSE /\ artifact' = file
                /\ UNCHANGED MODEL_OUT_DIR
    /\ train' = [train EXCEPT !.pc = "dumping"]
    /\ UNCHANGED <<SCHEDULE_MODEL, metricsFile, ld, reload, predict, nruns,
                   build, paginated>>

\* train_model.py:149, joblib.dump writes the last byte and closes the file
TrainDumpClose ==
    /\ train.pc = "dumping"
    /\ LET file == CompleteFile(Pipeline(train.run, train.features))
       IN  IF MODEL_OUT_DIR.separate
           THEN /\ MODEL_OUT_DIR' = [MODEL_OUT_DIR EXCEPT !.artifact = file]
                /\ UNCHANGED artifact
           ELSE /\ artifact' = file
                /\ UNCHANGED MODEL_OUT_DIR
    /\ train' = [train EXCEPT !.pc = "metrics"]
    /\ UNCHANGED <<SCHEDULE_MODEL, metricsFile, ld, reload, predict, nruns,
                   build, paginated>>

\* train_model.py:149, joblib.dump raises while writing (an I/O error)
TrainDumpFail ==
    /\ train.pc = "dumping"
    /\ train' = TrainFailed(train)
    /\ UNCHANGED <<SCHEDULE_MODEL, artifact, metricsFile, ld, reload, predict, nruns,
                   build, MODEL_OUT_DIR, paginated>>

\* train_model.py:152-166, then main.py:280, the call of load_schedule_model
TrainWriteMetrics ==
    /\ train.pc = "metrics"
    /\ IF MODEL_OUT_DIR.separate
       THEN /\ MODEL_OUT_DIR' = [MODEL_OUT_DIR EXCEPT
                                   !.metricsFile = MetricsOf(train)]
            /\ UNCHANGED metricsFile
       ELSE /\ metricsFile' = MetricsOf(train)
            /\ UNCHANGED MODEL_OUT_DIR
    /\ train' = [train EXCEPT !.pc = "load"]
    /\ ld' = [ld EXCEPT !["train"] = LoadEntered]
    /\ UNCHANGED <<SCHEDULE_MODEL, artifact, reload, predict, nruns, build,
                   paginated>>

\* main.py:282-289
TrainRespond ==
    /\ train.pc = "load"
    /\ ld["train"].pc = "ret"
    /\ train' = [train EXCEPT
                   !.pc = "done",
                   !.resp = [kind |-> "trained", code |-> 200,
                             details |-> FALSE, out |-> <<>>],
                   !.metrics = metricsFile]
    /\ ld' = [ld EXCEPT !["train"] = LoadOff]
    /\ UNCHANGED <<SCHEDULE_MODEL, artifact, metricsFile, reload, predict, nruns,
                   build, MODEL_OUT_DIR, paginated>>

\* the response is sent and the thread takes the next request
TrainReturn ==
    /\ train.pc = "done"
    /\ train' = TrainIdle
    /\ UNCHANGED <<SCHEDULE_MODEL, artifact, metricsFile, ld, reload, predict, nruns,
                   build, MODEL_OUT_DIR, paginated>>

----------------------------------------------------------------------------
(* The feature builder, the script backend/scraping_data.py.  Cells of a   *)
(* data frame are Python values as above; a cell without a value is NaN.   *)
(* Weights, scores and click counts are whole numbers, hours are counted   *)
(* in millionths until they are rounded and in hundredths afterwards.      *)

NaN == [t |-> "nan", n |-> 0, s |-> ""]

\* pd.isna: NaN, and the None that Series.get gives for a missing column
isna(x) == x.t \in {"nan", "null", "absent"}

\* scraping_data.py:277, the defaults of compute_hours_proxy: alpha, beta and
\* base in hundredths, gamma in thousandths
alpha == 6
beta == 35
gamma == 25
base == 75

\* scraping_data.py:292-293, the floor and the cap in hundredths of an hour
FloorHours == 25
CapHours == 2000

\* np.log1p in millionths, for the click counts the model draws
log1p(v) ==
    CASE v = 0 -> 0
      [] v = 1 -> 693147
      [] v = 2 -> 1098612
      [] v = 3 -> 1386294
      [] v = 4 -> 1609438
      [] v = 5 -> 1791759
      [] v = 6 -> 1945910
      [] v = 7 -> 2079442
      [] v = 8 -> 2197225
      [] v = 9 -> 2302585
      [] v = 10 -> 2397895
      [] v = 100 -> 4615121
      [] v = 10000 -> 9210440

\* the sum of scraping_data.py:291 with the past-score term ten times as
\* large: past_norm * 2.5
RawHoursTenfoldPast(w, v, past) ==
    base * 10000 + w * alpha * 10000 + (log1p(v) * beta) \div 100
      - past * gamma * 1000

\* the sum of scraping_data.py:291 with past_avg_score weighing in with
\* the sign turned
RawHoursPastAdded(w, v, past) ==
    base * 10000 + w * alpha * 10000 + (log1p(v) * beta) \div 100
      + past * gamma * 100

\* scraping_data.py:288-291: past_norm = past / 100, and the sum
\* base + w * alpha + log1p(vlec) * beta - past_norm * gamma * 10
RawHours(w, v, past) ==
    base * 10000 + w * alpha * 10000 + (log1p(v) * beta) \div 100
      - past * gamma * 100

Max(a, b) == IF a > b THEN a ELSE b

\* the clamp without the cap
ClampFloorOnly(micro) == Max(FloorHours * 10000, micro)

\* scraping_data.py:292-293
Clamp(micro) == Min(Max(FloorHours * 10000, micro), CapHours * 10000)

\* scraping_data.py:291: where the sum in decimals ends in exactly half a
\* hundredth, the binary64 sum the code rounds lies above it, below it, or
\* on it; these are the ties among the inputs the model draws, by weight,
\* clicks and past score
TiesAbove == {<<10, 0, 50>>, <<10, 0, 70>>, <<10, 0, 78>>, <<50, 0, 70>>,
              <<50, 0, 78>>, <<100, 0, 70>>}
TiesBelow == {<<0, 0, 70>>, <<0, 0, 78>>, <<20, 0, 50>>, <<20, 0, 70>>,
              <<20, 0, 78>>, <<100, 0, 78>>, <<320, 0, 50>>, <<320, 0, 70>>,
              <<320, 0, 78>>}

\* scraping_data.py:294, round(hours, 2): to the nearest hundredth, a tie to
\* the side the binary64 value lies on, an exact tie to the even hundredth
RoundHours(micro, w, v, past) ==
    LET q == micro \div 10000
        r == micro % 10000
    IN  IF r < 5000 THEN q
        ELSE IF r > 5000 THEN q + 1
        ELSE IF <<w, v, past>> \in TiesAbove THEN q + 1
        ELSE IF <<w, v, past>> \in TiesBelow THEN q
        ELSE IF q % 2 = 0 THEN q ELSE q + 1

\* `x or 0.0` for a cell of df_feat, which scraping_data.py:259-270 have
\* made a number
OrZero(x) == IF x.t = "num" THEN x.n ELSE 0

\* the substitute for a missing past score taken as 0
PastOrZero(x) == IF isna(x) THEN 0 ELSE x.n

\* scraping_data.py:286
PastOrDefault(x) == IF isna(x) THEN 50 ELSE x.n

\* scraping_data.py:277-294, in hundredths of an hour
compute_hours_proxy(row) ==
    LET w == OrZero(row.weight)
        vlec == OrZero(row.vle_count_total)
        past == PastOrDefault(row.past_avg_score)
    IN  RoundHours(Clamp(RawHours(w, vlec, past)), w, vlec, past)

\* scraping_data.py:264-272, a row of df_feat before the label is computed
FeatureRow(sid, aid, type, weight, score, vle, past) ==
    [student_id |-> sid, assessment_id |-> aid, assessment_type |-> type,
     weight |-> weight, score |-> score, vle_count_total |-> vle,
     past_avg_score |-> past, assignment_hours |-> AbsentV]

\* the file oulad_training.csv
NoDataset == [written |-> FALSE, rows |-> <<>>]
Dataset(rows) == [written |-> TRUE, rows |-> rows]


(* Files and tables.  A file name is its lower-cased base name cut into    *)
(* the pieces the keywords of scraping_data.py:99-104 are made of, so that *)
(* `keyword in name` is: the pieces of the keyword occur in a row among    *)
(* the pieces of the name.  A table is its set of column names and its     *)
(* rows, each a function from the column names to cells.                   *)

\* safe_read_csv returned None, or nothing was read
NoTable == [isNone |-> TRUE, cols |-> {}, rows |-> <<>>]
Table(cols, rows) == [isNone |-> FALSE, cols |-> cols, rows |-> rows]

\* a CSV file under the download directory; its table is NoTable if
\* pd.read_csv raises on it
CsvFile(name, table) == [name |-> name, table |-> table]

\* scraping_data.py:59,61, `k in name`
IsInfix(k, n) ==
    \E i \in 0..(Len(n) - Len(k)) : SubSeq(n, i + 1, i + Len(k)) = k

\* scraping_data.py:53, name == inc + ".csv"
IsExact(k, n) == n = k \o <<".csv">>

\* scraping_data.py:57-63, the test of the second loop
Matches(n, include, exclude) ==
    /\ include # {} => \E inc \in include : IsInfix(inc, n)
    /\ ~(\E ex \in exclude : IsInfix(ex, n))

MinOf(S) == CHOOSE i \in S : \A j \in S : i <= j

\* scraping_data.py:40-66: the place of the chosen file in csv_list, 0 for
\* None
pick_file(csv_list, include, exclude) ==
    LET exact == {i \in 1..Len(csv_list) :
                    \E inc \in include : IsExact(inc, csv_list[i].name)}
        match == {i \in 1..Len(csv_list) :
                    Matches(csv_list[i].name, include, exclude)}
    IN  IF csv_list = <<>> THEN 0
        ELSE IF exact # {} THEN MinOf(exact)
        ELSE IF match # {} THEN MinOf(match)
        ELSE 1

\* scraping_data.py:99-100, the keywords of the two core tables
AssessmentsInclude == {<<"assessment", "s">>}
AssessmentsExclude == {<<"student">>}
StudentAssessInclude == {<<"student", "assessment">>,
                         <<"student", "_", "assessment">>,
                         <<"student", "-", "assessment">>}

\* scraping_data.py:102
IsStudentVle(n) ==
    IsInfix(<<"student", "vle">>, n) \/ IsInfix(<<"student", "_", "vle">>, n)

\* a row with the columns cols, NaN where it had none
Extend(r, cols) == [c \in cols |-> IF c \in DOMAIN r THEN r[c] ELSE NaN]

\* scraping_data.py:133, pd.concat(parts, ignore_index=True)
RECURSIVE concat(_)
concat(parts) ==
    IF Len(parts) = 1 THEN parts[1]
    ELSE LET rest == concat(Tail(parts))
             cols == parts[1].cols \cup rest.cols
         IN  Table(cols,
                   [i \in 1..Len(parts[1].rows) |-> Extend(parts[1].rows[i], cols)]
                     \o [i \in 1..Len(rest.rows) |-> Extend(rest.rows[i], cols)])

\* scraping_data.py:120-136: the table of the file at place fp of csv_list
safe_read_csv(csv_list, fp) == IF fp = 0 THEN NoTable ELSE csv_list[fp].table

\* scraping_data.py:125-133: the studentVle parts that could be read, in one
\* table
LoadStudentVle(csv_list) ==
    LET parts == SelectSeq(csv_list,
                           LAMBDA f : IsStudentVle(f.name) /\ ~f.table.isNone)
    IN  IF parts = <<>> THEN NoTable
        ELSE concat([i \in 1..Len(parts) |-> parts[i].table])

\* scraping_data.py:154, str.strip().str.lower().str.replace(" ", "_") on
\* the headers the model draws
NormalizeName(c) ==
    CASE c = "Weight" -> "weight"
      [] c = " Score" -> "score"
      [] c = "assessment type" -> "assessment_type"
      [] OTHER -> c

\* scraping_data.py:153-155, every header replaced by its normal form
normalize(df) ==
    LET cols == {NormalizeName(c) : c \in df.cols}
    IN  IF df.isNone THEN df
        ELSE Table(cols,
                   [i \in 1..Len(df.rows) |->
                      [c \in cols |->
                         df.rows[i][CHOOSE o \in df.cols : NormalizeName(o) = c]]])

\* df.rename(columns={old: new})
rename(df, old, new) ==
    LET cols == (df.cols \ {old}) \cup {new}
    IN  Table(cols,
              [i \in 1..Len(df.rows) |->
                 [c \in cols |-> IF c = new THEN df.rows[i][old]
                                 ELSE df.rows[i][c]]])

\* the if/elif chains of scraping_data.py:173-197: unless canon is a column,
\* the first of aliases that is one is renamed to canon
RenameFirst(df, canon, aliases) ==
    LET present == {i \in 1..Len(aliases) : aliases[i] \in df.cols}
    IN  IF canon \in df.cols \/ present = {} THEN df
        ELSE rename(df, aliases[MinOf(present)], canon)

\* scraping_data.py:173-177, 190-192, 195-197
ReconcileAssessments(df) ==
    RenameFirst(
      RenameFirst(
        RenameFirst(df, "id_assessment", <<"id", "assessment_id">>),
        "id_student", <<"studentid">>),
      "weight", <<"assessment_weight">>)

\* scraping_data.py:179-181, 184-188
ReconcileStudentAssess(df) ==
    RenameFirst(
      RenameFirst(df, "id_assessment", <<"id">>),
      "id_student", <<"studentid", "student_id">>)

RECURSIVE Flatten(_)
Flatten(seqs) == IF seqs = <<>> THEN <<>> ELSE Head(seqs) \o Flatten(Tail(seqs))

\* the rows of the right table a left row is joined with: the first only
RightMatchesFirstOnly(rows, on, key) ==
    LET ms == SelectSeq(rows, LAMBDA r : r[on] = key)
    IN  IF ms = <<>> THEN ms ELSE <<ms[1]>>

\* pandas merge: the rows of the right table whose key equals that of the
\* left row (NaN equals NaN), in the order of the right table
RightMatches(rows, on, key) == SelectSeq(rows, LAMBDA r : r[on] = key)

\* DataFrame.merge(right, on=on, how='left', suffixes=(lsuffix, rsuffix)):
\* KeyError unless both tables have the column; every left row once per
\* matching right row, or once with NaN for the right columns; the columns
\* both tables have, the key apart, get the suffixes
merge(left, right, on, lsuffix, rsuffix) ==
    LET overlap == (left.cols \cap right.cols) \ {on}
        lcols == left.cols \ {on}
        rcols == right.cols \ {on}
        lname(c) == IF c \in overlap THEN c \o lsuffix ELSE c
        rname(c) == IF c \in overlap THEN c \o rsuffix ELSE c
        cols == {on} \cup {lname(c) : c \in lcols} \cup {rname(c) : c \in rcols}
        cell(c, l, r, found) ==
            IF c = on THEN l[on]
            ELSE IF \E lc \in lcols : lname(lc) = c
            THEN l[CHOOSE lc \in lcols : lname(lc) = c]
            ELSE IF found THEN r[CHOOSE rc \in rcols : rname(rc) = c]
            ELSE NaN
        joined(l) ==
            LET ms == RightMatches(right.rows, on, l[on])
            IN  IF ms = <<>> THEN <<[c \in cols |-> cell(c, l, l, FALSE)]>>
                ELSE [j \in 1..Len(ms) |-> [c \in cols |-> cell(c, l, ms[j], TRUE)]]
    IN  IF on \notin left.cols \/ on \notin right.cols
        THEN [raised |-> TRUE, df |-> NoTable]
        ELSE [raised |-> FALSE,
              df |-> Table(cols, Flatten([i \in 1..Len(left.rows) |->
                                             joined(left.rows[i])]))]

\* the keys of df.groupby(by): the values of the column that are not NaN,
\* in ascending order
RECURSIVE Ascending(_)
Ascending(S) ==
    IF S = {} THEN <<>>
    ELSE LET m == CHOOSE x \in S : \A y \in S : x.n <= y.n
         IN  <<m>> \o Ascending(S \ {m})

GroupKeys(df, by) ==
    Ascending({df.rows[i][by] : i \in 1..Len(df.rows)} \ {NaN})

\* the cells of column col in the rows of group key, a missing one as 0
GroupCellsWithMissing(df, by, key, col) ==
    LET rows == SelectSeq(df.rows, LAMBDA r : r[by] = key)
    IN  [i \in 1..Len(rows) |-> rows[i][col].n]

\* the cells of column col in the rows of group key that are not NaN
GroupCells(df, by, key, col) ==
    LET rows == SelectSeq(df.rows, LAMBDA r : r[by] = key /\ ~isna(r[col]))
    IN  [i \in 1..Len(rows) |-> rows[i][col].n]

RECURSIVE SumOf(_)
SumOf(ns) == IF ns = <<>> THEN 0 ELSE Head(ns) + SumOf(Tail(ns))

\* the mean of a group's scores; the scores the model draws have whole means
MeanCell(ns) == IF ns = <<>> THEN NaN ELSE Num(SumOf(ns) \div Len(ns))

\* the cell as it is
fillnaKept(x) == x

\* scraping_data.py:240
fillna0(x) == IF isna(x) THEN Num(0) ELSE x

\* scraping_data.py:239-240
past_avg(student_assess) ==
    LET keys == GroupKeys(student_assess, "id_student")
    IN  Table({"id_student", "past_avg_score"},
              [i \in 1..Len(keys) |->
                 [c \in {"id_student", "past_avg_score"} |->
                    IF c = "id_student" THEN keys[i]
                    ELSE fillna0(MeanCell(GroupCells(student_assess, "id_student",
                                                     keys[i], "score")))]])

\* scraping_data.py:217, the click columns by priority
ClickColumns == <<"sum_click", "sumclick", "clicks", "sum_click", "activity", "count">>

\* the rows per student, whatever click column the table has
vle_count_dfRowCount(student_vle) ==
    LET df == RenameFirst(student_vle, "id_student", <<"studentid">>)
        keys == GroupKeys(df, "id_student")
    IN  IF student_vle.isNone THEN NoTable
        ELSE IF "id_student" \notin df.cols THEN NoTable
        ELSE Table({"id_student", "vle_clicks_total"},
                   [i \in 1..Len(keys) |->
                      [c \in {"id_student", "vle_clicks_total"} |->
                         IF c = "id_student" THEN keys[i]
                         ELSE Num(Len(SelectSeq(df.rows,
                                LAMBDA r : r["id_student"] = keys[i])))]])

\* scraping_data.py:214-236: the clicks per student, NoTable where there is
\* no studentVle table or the aggregation raises
vle_count_df(student_vle) ==
    LET present == {i \in 1..Len(ClickColumns) : ClickColumns[i] \in student_vle.cols}
        counted == IF present # {} THEN student_vle
                   ELSE Table(student_vle.cols \cup {"_vle_row_count"},
                              [i \in 1..Len(student_vle.rows) |->
                                 [c \in student_vle.cols \cup {"_vle_row_count"} |->
                                    IF c = "_vle_row_count" THEN Num(1)
                                    ELSE student_vle.rows[i][c]]])
        click_col == IF present # {} THEN ClickColumns[MinOf(present)]
                     ELSE "_vle_row_count"
        df == RenameFirst(counted, "id_student", <<"studentid">>)
        keys == GroupKeys(df, "id_student")
    IN  IF student_vle.isNone THEN NoTable
        ELSE IF "id_student" \notin df.cols THEN NoTable
        ELSE Table({"id_student", "vle_clicks_total"},
                   [i \in 1..Len(keys) |->
                      [c \in {"id_student", "vle_clicks_total"} |->
                         IF c = "id_student" THEN keys[i]
                         ELSE Num(SumOf(GroupCells(df, "id_student", keys[i],
                                                   click_col)))]])

\* df[col] = cells: the table with column col holding cells, row by row
SetColumn(df, col, cells) ==
    Table(df.cols \cup {col},
          [i \in 1..Len(df.rows) |->
             [c \in df.cols \cup {col} |->
                IF c = col THEN cells[i] ELSE df.rows[i][c]]])

\* Series.get: None for a column the row does not have
GetCell(r, c) == IF c \in DOMAIN r THEN r[c] ELSE NullV

\* scraping_data.py:258, a or b or None for cells: NaN is true
TypeOr(a, b) ==
    IF a.t = "nan" \/ Truthy(a) THEN a
    ELSE IF b.t = "nan" \/ Truthy(b) THEN b
    ELSE NullV

\* scraping_data.py:259,261: the cell, 0.0 for a missing one
OrZeroCell(x) == IF isna(x) THEN Num(0) ELSE x

\* scraping_data.py:260,262,269,271: the cell, NaN for a missing one
OrNaN(x) == IF isna(x) THEN NaN ELSE x

\* scraping_data.py:255-272, the feature row of a row of merged
feature_row(r) ==
    FeatureRow(GetCell(r, "id_student"), GetCell(r, "id_assessment"),
               TypeOr(GetCell(r, "assessment_type"), GetCell(r, "type")),
               OrZeroCell(GetCell(r, "weight")),
               OrNaN(GetCell(r, "score")),
               OrZeroCell(GetCell(r, "vle_clicks_total")),
               OrNaN(GetCell(r, "past_avg_score")))

\* scraping_data.py:268-271: float() of a cell that holds text raises
FloatRaises(r) ==
    \E c \in {"weight", "score", "vle_clicks_total", "past_avg_score"} :
       GetCell(r, c).t = "str"

\* the script is not running
BuildOff == [pc |-> "off", csv_files |-> <<>>,
             assessments_fp |-> 0, student_assess_fp |-> 0,
             assessments |-> NoTable, student_assess |-> NoTable,
             student_vle |-> NoTable, merged |-> NoTable,
             df_feat |-> <<>>, out |-> NoDataset,
             error |-> "", fallback |-> FALSE]

\* the script ends in the exception e
BuildRaise(b, e) == [b EXCEPT !.pc = "exit", !.error = e]

\* scraping_data.py:99-136: the files are chosen and read
BuildLoad ==
    /\ build.pc = "start"
    /\ LET files == build.csv_files
           afp == pick_file(files, AssessmentsInclude, AssessmentsExclude)
           sfp == pick_file(files, StudentAssessInclude, {})
       IN  build' = [build EXCEPT
                       !.pc = "check",
                       !.assessments_fp = afp,
                       !.student_assess_fp = sfp,
                       !.assessments = safe_read_csv(files, afp),
                       !.student_assess = safe_read_csv(files, sfp),
                       !.student_vle = LoadStudentVle(files)]
    /\ UNCHANGED <<SCHEDULE_MODEL, artifact, metricsFile, ld, train, reload,
                   predict, nruns, MODEL_OUT_DIR, paginated>>

\* scraping_data.py:139-150: without a core table the first CSV is saved as
\* oulad_raw_fallback.csv, if it can be read, and the script exits
BuildCheck ==
    /\ build.pc = "check"
    /\ build' = IF build.assessments.isNone \/ build.student_assess.isNone
                THEN [BuildRaise(build, "SystemExit") EXCEPT
                        !.fallback = /\ build.csv_files # <<>>
                                     /\ ~build.csv_files[1].table.isNone]
                ELSE [build EXCEPT !.pc = "normalize"]
    /\ UNCHANGED <<SCHEDULE_MODEL, artifact, metricsFile, ld, train, reload,
                   predict, nruns, MODEL_OUT_DIR, paginated>>

\* scraping_data.py:157-197: headers normalised, key columns renamed
BuildNormalize ==
    /\ build.pc = "normalize"
    /\ build' = [build EXCEPT
                   !.pc = "merge",
                   !.assessments = ReconcileAssessments(normalize(build.assessments)),
                   !.student_assess =
                      ReconcileStudentAssess(normalize(build.student_assess)),
                   !.student_vle = normalize(build.student_vle)]
    /\ UNCHANGED <<SCHEDULE_MODEL, artifact, metricsFile, ld, train, reload,
                   predict, nruns, MODEL_OUT_DIR, paginated>>

\* scraping_data.py:202-207
BuildMerge ==
    /\ build.pc = "merge"
    /\ LET m == merge(build.student_assess, build.assessments, "id_assessment",
                      "_stu", "_assess")
       IN  build' = IF m.raised THEN BuildRaise(build, "KeyError")
                    ELSE [build EXCEPT !.pc = "aggregate", !.merged = m.df]
    /\ UNCHANGED <<SCHEDULE_MODEL, artifact, metricsFile, ld, train, reload,
                   predict, nruns, MODEL_OUT_DIR, paginated>>

\* scraping_data.py:212-251: clicks and past average per student, merged
\* into merged; groupby and agg raise KeyError for a missing column
BuildAggregate ==
    /\ build.pc = "aggregate"
    /\ LET vle == vle_count_df(build.student_vle)
           withPast == merge(build.merged, past_avg(build.student_assess),
                             "id_student", "_x", "_y")
           joinedVle == merge(withPast.df, vle, "id_student", "_x", "_y").df
           withVle == IF vle.isNone
                      THEN SetColumn(withPast.df, "vle_clicks_total",
                                     [i \in 1..Len(withPast.df.rows) |-> Num(0)])
                      ELSE SetColumn(joinedVle, "vle_clicks_total",
                                     [i \in 1..Len(joinedVle.rows) |->
                                        fillna0(joinedVle.rows[i]["vle_clicks_total"])])
           withWeight == SetColumn(withVle, "weight",
                                   [i \in 1..Len(withVle.rows) |->
                                      IF "weight" \in withVle.cols
                                      THEN withVle.rows[i]["weight"] ELSE NaN])
       IN  build' =
             IF \/ "id_student" \notin build.student_assess.cols
                \/ "score" \notin build.student_assess.cols
                \/ withPast.raised
             THEN BuildRaise(build, "KeyError")
             ELSE [build EXCEPT !.pc = "rows", !.merged = withWeight]
    /\ UNCHANGED <<SCHEDULE_MODEL, artifact, metricsFile, ld, train, reload,
                   predict, nruns, MODEL_OUT_DIR, paginated>>

\* scraping_data.py:254-274
BuildRows ==
    /\ build.pc = "rows"
    /\ LET rows == build.merged.rows
       IN  build' =
             IF \E i \in 1..Len(rows) : FloatRaises(rows[i])
             THEN BuildRaise(build, "ValueError")
             ELSE [build EXCEPT
                     !.pc = "label",
                     !.df_feat = [i \in 1..Len(rows) |-> feature_row(rows[i])]]
    /\ UNCHANGED <<SCHEDULE_MODEL, artifact, metricsFile, ld, train, reload,
                   predict, nruns, MODEL_OUT_DIR, paginated>>

\* scraping_data.py:296, df_feat.apply(compute_hours_proxy, axis=1)
BuildLabel ==
    /\ build.pc = "label"
    /\ build' = [build EXCEPT
                   !.pc = "write",
                   !.df_feat = [i \in 1..Len(build.df_feat) |->
                                  [build.df_feat[i] EXCEPT
                                     !.assignment_hours =
                                        Num(compute_hours_proxy(build.df_feat[i]))]]]
    /\ UNCHANGED <<SCHEDULE_MODEL, artifact, metricsFile, ld, train, reload,
                   predict, nruns, MODEL_OUT_DIR, paginated>>

\* dropna() over every column
df_finalDropAnyMissing(df) ==
    SelectSeq(df, LAMBDA r : \A c \in DOMAIN r : ~isna(r[c]))

\* scraping_data.py:299, dropna(subset=['student_id', 'assessment_id'])
df_final(df) ==
    SelectSeq(df, LAMBDA r : ~isna(r.student_id) /\ ~isna(r.assessment_id))

\* scraping_data.py:299-302
BuildWrite ==
    /\ build.pc = "write"
    /\ build' = [build EXCEPT !.pc = "done",
                              !.out = Dataset(df_final(build.df_feat))]
    /\ UNCHANGED <<SCHEDULE_MODEL, artifact, metricsFile, ld, train, reload,
                   predict, nruns, MODEL_OUT_DIR, paginated>>

----------------------------------------------------------------------------
(* _get_paginated, utils/canvas_requests.py:92-129, against a Canvas        *)
(* server that holds a result on pages.  Texts are sequences of tokens, a  *)
(* URL is the text of one token naming a page.                             *)

\* pages a server holds at most
MaxPages == 3

Tok(c) == [c |-> c, n |-> 0]
UrlTok(k) == [c |-> "url", n |-> k]
PageUrl(k) == <<UrlTok(k)>>

\* the items of a result: item j of page k; the object a page holds in
\* place of a list
Item(k, j) == [page |-> k, item |-> j]
PageObject(k) == Item(k, 0)

\* resp.json(): a list or an object
JsonList(items) == [isList |-> TRUE, items |-> items, object |-> PageObject(0)]
JsonObject(o) == [isList |-> FALSE, items |-> <<>>, object |-> o]

\* resp.headers.get("Link"): None for a response without the header
NoHeader == [has |-> FALSE, text |-> <<>>]
Header(text) == [has |-> TRUE, text |-> text]

\* <url>; rel="name"
LinkPart(url, name) ==
    <<Tok("<")>> \o url \o <<Tok(">"), Tok(";"), Tok(" "), Tok("rel"), Tok("="),
                             Tok("\""), Tok(name), Tok("\"")>>

\* the separator of two links
Comma == <<Tok(","), Tok(" ")>>

\* the Link headers Canvas sends on page k: none; current, next and last;
\* prev and last; next after a part that is no link
LinkKinds == {"none", "next", "prev", "bare"}
LinkHeader(kind, k) ==
    CASE kind = "none" -> NoHeader
      [] kind = "next" ->
           Header(LinkPart(PageUrl(k), "current") \o Comma
                    \o LinkPart(PageUrl(k + 1), "next") \o Comma
                    \o LinkPart(PageUrl(MaxPages), "last"))
      [] kind = "prev" ->
           Header(LinkPart(PageUrl(k - 1), "prev") \o Comma
                    \o LinkPart(PageUrl(MaxPages), "last"))
      [] kind = "bare" ->
           Header(<<Tok("<")>> \o PageUrl(k) \o <<Tok(">")>> \o Comma
                    \o LinkPart(PageUrl(k + 1), "next"))

\* the bodies of page k: a list of two items, an empty list, an object
BodyKinds == {"list", "empty", "object"}
PageBody(kind, k) ==
    CASE kind = "list" -> JsonList(<<Item(k, 1), Item(k, 2)>>)
      [] kind = "empty" -> JsonList(<<>>)
      [] kind = "object" -> JsonObject(PageObject(k))

\* a response: ok is status below 400
Response(ok, json, link) == [ok |-> ok, json |-> json, link |-> link]
NotFound == Response(FALSE, JsonObject(PageObject(0)), NoHeader)

\* a server: its pages in order, each by the kinds of its body and header
ServerPage(server, k) ==
    Response(TRUE, PageBody(server[k].body, k), LinkHeader(server[k].link, k))

\* _session.get(url, ...): the page the URL names, 404 for any other URL
SessionGet(server, url) ==
    IF Len(url) = 1 /\ url[1].c = "url" /\ url[1].n \in 1..Len(server)
    THEN ServerPage(server, url[1].n)
    ELSE NotFound

\* str.split(sep)
RECURSIVE Split(_, _)
Split(s, sep) ==
    IF \A i \in 1..Len(s) : s[i] # sep THEN <<s>>
    ELSE LET i == MinOf({j \in 1..Len(s) : s[j] = sep})
         IN  <<SubSeq(s, 1, i - 1)>> \o Split(SubSeq(s, i + 1, Len(s)), sep)

\* str.split(sep, 1) of a text that holds sep
SplitOnce(s, sep) ==
    LET i == MinOf({j \in 1..Len(s) : s[j] = sep})
    IN  <<SubSeq(s, 1, i - 1), SubSeq(s, i + 1, Len(s))>>

\* str.strip(chars)
RECURSIVE Strip(_, _)
Strip(s, chars) ==
    IF s # <<>> /\ Head(s) \in chars THEN Strip(Tail(s), chars)
    ELSE IF s # <<>> /\ s[Len(s)] \in chars
    THEN Strip(SubSeq(s, 1, Len(s) - 1), chars)
    ELSE s

Whitespace == {Tok(" ")}

\* canvas_requests.py:86, the key of a link kept as the text after the
\* semicolon
RelOfWhole(rel_part) == Strip(rel_part, Whitespace)

\* canvas_requests.py:86, rel_part.strip().split("=")[-1].strip('"')
RelOf(rel_part) ==
    LET pieces == Split(Strip(rel_part, Whitespace), Tok("="))
    IN  Strip(pieces[Len(pieces)], {Tok("\"")})

\* canvas_requests.py:85, url_part.strip().strip("<>").strip()
UrlOf(url_part) ==
    Strip(Strip(Strip(url_part, Whitespace), {Tok("<"), Tok(">")}), Whitespace)

\* canvas_requests.py:72-89: the links of a header in the order they are
\* stored, each as rel and url
parse_link_header(link_header) ==
    LET parts == IF link_header = <<>> THEN <<>> ELSE Split(link_header, Tok(","))
        links == SelectSeq(parts, LAMBDA p : \E i \in 1..Len(p) : p[i] = Tok(";"))
    IN  [i \in 1..Len(links) |->
           [rel |-> RelOf(SplitOnce(links[i], Tok(";"))[2]),
            url |-> UrlOf(SplitOnce(links[i], Tok(";"))[1])]]

\* links.get(rel): the url stored last under rel, None as the empty text
LinksGet(links, rel) ==
    LET at == {i \in 1..Len(links) : links[i].rel = rel}
    IN  IF at = {} THEN <<>>
        ELSE links[CHOOSE i \in at : \A j \in at : j <= i].url

\* query parameters: None, or a dict from names to values
NoParams == [isNone |-> TRUE, dict |-> <<>>]
Params(dict) == [isNone |-> FALSE, dict |-> dict]

\* canvas_requests.py:99
PerPage == 100

\* canvas_requests.py:97-99: a copy of the caller's dict, an empty dict for
\* None or an empty one, with per_page set where the caller set none
FirstParams(params) ==
    LET d == IF params.isNone THEN <<>> ELSE params.dict
    IN  Params([k \in DOMAIN d \cup {"per_page"} |->
                  IF k \in DOMAIN d THEN d[k] ELSE PerPage])

PaginatedOff == [pc |-> "off", server |-> <<>>, params |-> NoParams,
                 url |-> <<>>, next_params |-> NoParams, results |-> <<>>,
                 sent |-> <<>>, error |-> ""]

\* canvas_requests.py:96-100, the call for the endpoint of the first page
PaginatedCall(p) ==
    [p EXCEPT !.pc = "loop", !.url = PageUrl(1),
              !.next_params = FirstParams(p.params)]

\* canvas_requests.py:102-127, one pass of the loop: the request, the
\* check of the status, the body added to results, the next link
PaginatedGet ==
    /\ paginated.pc = "loop"
    /\ LET p == paginated
           resp == SessionGet(p.server, p.url)
           sent == Append(p.sent, [url |-> p.url, params |-> p.next_params])
           results == IF resp.json.isList THEN p.results \o resp.json.items
                      ELSE Append(p.results, resp.json.object)
           next_url == LinksGet(parse_link_header(resp.link.text), <<Tok("next")>>)
       IN  paginated' =
             IF ~resp.ok
             THEN [p EXCEPT !.pc = "raised", !.error = "RuntimeError", !.sent = sent]
             ELSE IF ~resp.link.has \/ resp.link.text = <<>> \/ next_url = <<>>
             THEN [p EXCEPT !.pc = "returned", !.sent = sent, !.results = results]
             ELSE [p EXCEPT !.sent = sent, !.results = results, !.url = next_url,
                            !.next_params = NoParams]
    /\ UNCHANGED <<SCHEDULE_MODEL, artifact, metricsFile, ld, train, reload,
                   predict, nruns, build, MODEL_OUT_DIR>>

----------------------------------------------------------------------------
(* The service.                                                            *)

\* Spec, SpecTrain, SpecFit and SpecPredict take the deployment in which
\* MODEL_DIR names the directory training writes to; SpecDeploy takes both.

\* the artifact and report a training run left before this process started
PriorModel == Pipeline(0, Candidates)
PriorMetrics == [state |-> "complete", run |-> 0, data_file |-> 1,
                 features |-> Candidates, cv |-> TRUE, importances |-> TRUE]

GoodRecord == [EmptyRecord EXCEPT !["assignment_id"] = Num(7),
                                  !["assignment"] = Str("HW1"),
                                  !["weight"] = Num(10),
                                  !["vle_count_total"] = Num(5),
                                  !["past_avg_score"] = Num(78),
                                  !["assessment_type"] = Str("Homework")]

\* the records of the requests the service sees: the docstring's record
\* (main.py:316), one under the alias keys, one with a non-numeric weight,
\* one with an infinite weight
OtherRecord == [EmptyRecord EXCEPT !["id"] = Num(5),
                                   !["name"] = Str("Quiz 2"),
                                   !["weight_percent"] = Num(20),
                                   !["vle_count"] = Num(6),
                                   !["type"] = Str("Quiz")]

ServiceRecords ==
    {GoodRecord, OtherRecord,
     [GoodRecord EXCEPT !["assignment_id"] = Num(8), !["weight"] = Str("abc")],
     [GoodRecord EXCEPT !["assignment_id"] = Num(9), !["weight"] = Str("inf")]}

\* the batches of at most MaxBatch records that hold the docstring's record
\* everywhere but at one place, where they hold a record of records
BatchesOf(records) ==
    {<<>>} \cup
    UNION {{[i \in 1..n |-> IF i = k THEN r ELSE GoodRecord] :
              k \in 1..n, r \in records} : n \in 1..MaxBatch}

Bodies(records) == {NoAssignments} \cup {Batch(b) : b \in BatchesOf(records)}

\* the data the service is trained on: the first data file, holding every
\* column or the label and one feature; fitting fails or all of it succeeds
ServiceDisks == {{1}}
ServiceDatasets == {Columns, {"vle_count_total", "assignment_hours"}}
ServiceFits == {FitOutcome(FALSE, FALSE, FALSE), FitOutcome(TRUE, TRUE, TRUE)}

\* main.py:61, before the import-time call at main.py:86
Init ==
    /\ SCHEDULE_MODEL = None
    /\ \/ artifact = NoFile /\ metricsFile = NoMetrics
       \/ artifact = CompleteFile(PriorModel) /\ metricsFile = PriorMetrics
    /\ ld = [c \in LoadCallers |-> IF c = "main" THEN LoadEntered ELSE LoadOff]
    /\ train = TrainIdle
    /\ reload = ReloadIdle
    /\ predict = PredictIdle
    /\ nruns = 0
    /\ build = BuildOff
    /\ MODEL_OUT_DIR = SharedDir
    /\ paginated = PaginatedOff

Load == \E c \in LoadCallers : LoadCheckExists(c) \/ LoadRead(c) \/ LoadAssign(c)

\* the three routes served concurrently
Next ==
    \/ Load
    \/ ReloadRecv \/ ReloadRespond \/ ReloadReturn
    \/ PredictRecv(Bodies(ServiceRecords)) \/ PredictScore \/ PredictReturn
    \/ TrainRecv \/ TrainFind(ServiceDisks) \/ TrainSelect(ServiceDatasets)
    \/ TrainFit(ServiceFits)
    \/ TrainDumpOpen \/ TrainDumpClose \/ TrainDumpFail
    \/ TrainWriteMetrics \/ TrainRespond \/ TrainReturn

Spec == Init /\ [][Next]_vars

\* training requests one after another, over every set of data files and
\* every set of columns
NextTrain ==
    \/ Load
    \/ TrainRecv \/ TrainFind(SUBSET DataPaths) \/ TrainSelect(SUBSET Columns)
    \/ TrainFit(ServiceFits)
    \/ TrainDumpOpen \/ TrainDumpClose \/ TrainDumpFail
    \/ TrainWriteMetrics \/ TrainRespond \/ TrainReturn

SpecTrain == Init /\ [][NextTrain]_vars

\* training requests one after another over the data file at the first or
\* at the second path, with every way cross-validation and the importance
\* extraction can end
FitDisks == {{1}, {2, 3}}

NextFit ==
    \/ Load
    \/ TrainRecv \/ TrainFind(FitDisks) \/ TrainSelect(ServiceDatasets)
    \/ TrainFit(AllFitOutcomes)
    \/ TrainDumpOpen \/ TrainDumpClose \/ TrainDumpFail
    \/ TrainWriteMetrics \/ TrainRespond \/ TrainReturn

SpecFit == Init /\ [][NextFit]_vars

\* training and prediction requests, in either deployment: MODEL_DIR naming
\* the directory training writes to, or not
InitDeploy ==
    /\ SCHEDULE_MODEL = None
    /\ \/ artifact = NoFile /\ metricsFile = NoMetrics
       \/ artifact = CompleteFile(PriorModel) /\ metricsFile = PriorMetrics
    /\ ld = [c \in LoadCallers |-> IF c = "main" THEN LoadEntered ELSE LoadOff]
    /\ train = TrainIdle
    /\ reload = ReloadIdle
    /\ predict = PredictIdle
    /\ nruns = 0
    /\ build = BuildOff
    /\ MODEL_OUT_DIR \in {SharedDir, SeparateDir}
    /\ paginated = PaginatedOff

\* the data files on disk: none, the first; the columns of the CSV: all,
\* one feature and the label, no label, no feature
DeployDisks == {{}, {1}}
DeployDatasets == {Columns, {"vle_count_total", "assignment_hours"},
                   {"weight", "assessment_type"}, {"assignment_hours"}}

NextDeploy ==
    \/ Load
    \/ PredictRecv(Bodies(ServiceRecords)) \/ PredictScore \/ PredictReturn
    \/ TrainRecv \/ TrainFind(DeployDisks) \/ TrainSelect(DeployDatasets)
    \/ TrainFit(ServiceFits)
    \/ TrainDumpOpen \/ TrainDumpClose \/ TrainDumpFail
    \/ TrainWriteMetrics \/ TrainRespond \/ TrainReturn

SpecDeploy == InitDeploy /\ [][NextDeploy]_vars

\* the three callers of load_schedule_model: start-up, reloads and training
\* runs, interleaved, without prediction requests
NextLoad ==
    \/ Load
    \/ ReloadRecv \/ ReloadRespond \/ ReloadReturn
    \/ TrainRecv \/ TrainFind(ServiceDisks) \/ TrainSelect(ServiceDatasets)
    \/ TrainFit(ServiceFits)
    \/ TrainDumpOpen \/ TrainDumpClose \/ TrainDumpFail
    \/ TrainWriteMetrics \/ TrainRespond \/ TrainReturn

SpecLoad == Init /\ [][NextLoad]_vars

----------------------------------------------------------------------------
(* Prediction requests over records that vary one group of alias keys.     *)

\* the values a numeric key takes: missing, null, zero, a number of its
\* own, a string that is no number, a string that is one
NumericValues(own) == {AbsentV, NullV, Num(0), Num(own), Str("abc"), Str("70")}

\* the values a text key takes: missing, null, empty, a text of its own
TextValues(own) == {AbsentV, NullV, Str(""), Str(own)}

\* the values an identifier key takes: missing, zero, a number of its own
IdValues(own) == {AbsentV, Num(0), Num(own)}

WeightRecords ==
    {[EmptyRecord EXCEPT !["weight"] = a, !["weight_percent"] = b] :
        a \in NumericValues(10), b \in NumericValues(20)}

VleRecords ==
    {[EmptyRecord EXCEPT !["vle_count_total"] = a, !["vle_count"] = b] :
        a \in NumericValues(5), b \in NumericValues(6)}

PastRecords ==
    {[EmptyRecord EXCEPT !["past_avg_score"] = a, !["past_score"] = b,
                         !["student_past_avg"] = c] :
        a \in NumericValues(78), b \in NumericValues(60), c \in NumericValues(40)}

TypeRecords ==
    {[EmptyRecord EXCEPT !["assessment_type"] = a, !["type"] = b] :
        a \in TextValues("Homework"), b \in TextValues("Quiz")}

NameRecords ==
    {[EmptyRecord EXCEPT !["assignment_id"] = a, !["id"] = b,
                         !["assignment"] = c, !["name"] = d,
                         !["assignment_name"] = e] :
        a \in IdValues(11), b \in IdValues(12),
        c \in {AbsentV, Str(""), Str("Essay")},
        d \in {AbsentV, Str(""), Str("Lab")},
        e \in {AbsentV, Str(""), Str("Exam")}}

VariedRecords ==
    WeightRecords \cup VleRecords \cup PastRecords \cup TypeRecords \cup NameRecords

\* prediction requests one after another against the artifact found at
\* start-up
NextPredict ==
    \/ Load
    \/ PredictRecv(Bodies(VariedRecords)) \/ PredictScore \/ PredictReturn

SpecPredict == Init /\ [][NextPredict]_vars

----------------------------------------------------------------------------
(* The feature builder on its own: the service is not running.             *)

ServiceOff ==
    /\ SCHEDULE_MODEL = None
    /\ artifact = NoFile
    /\ metricsFile = NoMetrics
    /\ ld = [c \in LoadCallers |-> LoadOff]
    /\ train = TrainIdle
    /\ reload = ReloadIdle
    /\ predict = PredictIdle
    /\ nruns = 0
    /\ MODEL_OUT_DIR = SharedDir

\* the weights, click counts and past scores of the rows that are labelled:
\* weights up to where the cap is passed, past scores missing and over
\* their range
ProxyWeights == {0, 10, 100, 320, 330}
ProxyClicks == {0, 1, 5, 100, 10000}
ProxyPasts == {NaN, Num(0), Num(25), Num(50), Num(78), Num(100)}

ProxyRows ==
    {FeatureRow(Num(1), Num(1), Str("Homework"), Num(w), NaN, Num(v), p) :
        w \in ProxyWeights, v \in ProxyClicks, p \in ProxyPasts}

\* scraping_data.py:274, df_feat holding one row
InitProxy ==
    /\ ServiceOff
    /\ paginated = PaginatedOff
    /\ \E r \in ProxyRows :
          build = [BuildOff EXCEPT !.pc = "label", !.df_feat = <<r>>]

NextProxy == BuildLabel \/ BuildWrite

SpecProxy == InitProxy /\ [][NextProxy]_vars

----------------------------------------------------------------------------
(* The feature builder over downloads of varying files and headers.        *)

\* the rows of a table from tuples of cells in the order of heads
Rows(heads, tuples) ==
    [i \in 1..Len(tuples) |->
       [c \in {heads[k] : k \in 1..Len(heads)} |->
          tuples[i][CHOOSE k \in 1..Len(heads) : heads[k] = c]]]

\* the names the identifier columns go by in the downloads
AssessmentIdAliases == {"id_assessment", "id", "assessment_id"}
StudentIdAliases == {"id_student", "studentid", "student_id"}
WeightHeaders == {"weight", "assessment_weight", "Weight"}

\* assessment metadata: two assessments; one identifier on two rows; one
\* assessment without type and weight
MetaRowSets ==
    {<<<<Num(1), Str("TMA"), Num(10)>>, <<Num(2), Str("Exam"), Num(100)>>>>,
     <<<<Num(1), Str("TMA"), Num(10)>>, <<Num(1), Str("CMA"), Num(20)>>>>,
     <<<<Num(1), NaN, NaN>>>>}

MetaTables ==
    {Table({k, "assessment_type", w}, Rows(<<k, "assessment_type", w>>, rs)) :
        k \in AssessmentIdAliases, w \in WeightHeaders, rs \in MetaRowSets}

\* submissions as assessment, student, score: complete identifiers; a row
\* without assessment, a row without student, a row for an assessment the
\* metadata do not hold; one student submitting one assessment twice; a
\* student with one score and one submission without score beside a student
\* without any score
SubRowSets ==
    {<<<<Num(1), Num(7), Num(80)>>, <<Num(2), Num(7), Num(60)>>,
       <<Num(1), Num(8), NaN>>>>,
     <<<<Num(1), Num(7), Num(80)>>, <<NaN, Num(7), Num(60)>>,
       <<Num(2), NaN, Num(70)>>, <<Num(3), Num(8), NaN>>>>,
     <<<<Num(1), Num(7), Num(80)>>, <<Num(1), Num(7), Num(60)>>>>,
     <<<<Num(1), Num(7), Num(80)>>, <<Num(2), Num(7), NaN>>,
       <<Num(1), Num(8), NaN>>>>}

SubTables ==
    {Table({k, s, "score"}, Rows(<<k, s, "score">>, rs)) :
        k \in AssessmentIdAliases, s \in StudentIdAliases, rs \in SubRowSets}

\* studentVle with a click column; without one under the other student
\* header; with two click columns and no row for student 8; with the student
\* under a header the aggregation does not know
VleTables ==
    {Table({"id_student", "sum_click"},
           Rows(<<"id_student", "sum_click">>,
                <<<<Num(7), Num(2)>>, <<Num(7), Num(3)>>, <<Num(8), Num(5)>>>>)),
     Table({"studentid", "date"},
           Rows(<<"studentid", "date">>,
                <<<<Num(7), Num(1)>>, <<Num(7), Num(2)>>, <<Num(8), Num(1)>>>>)),
     Table({"id_student", "clicks", "sum_click"},
           Rows(<<"id_student", "clicks", "sum_click">>,
                <<<<Num(7), Num(9), Num(2)>>, <<Num(7), Num(1), Num(3)>>>>)),
     Table({"student_id", "sum_click"},
           Rows(<<"student_id", "sum_click">>,
                <<<<Num(7), Num(2)>>, <<Num(8), Num(5)>>>>))}

\* tables of files that are neither metadata nor submissions
CoursesTable ==
    Table({"code_module", "length"},
          Rows(<<"code_module", "length">>, <<<<Str("AAA"), Num(268)>>>>))
GradesTable ==
    Table({"id", "weight"}, Rows(<<"id", "weight">>, <<<<Num(1), Num(50)>>>>))

AssessmentsCsv(t) == CsvFile(<<"assessment", "s", ".csv">>, t)
CoursesCsv == CsvFile(<<"courses", ".csv">>, CoursesTable)
GradesCsv == CsvFile(<<"grades", ".csv">>, GradesTable)
StudentAssessmentCsv(t) == CsvFile(<<"student", "assessment", ".csv">>, t)
StudentVleCsv(t) == CsvFile(<<"student", "vle", ".csv">>, t)

\* scraping_data.py:95, the sorted list of CSV files found: both core tables
\* with or without studentVle; a core file that cannot be read; another
\* file where the metadata should be; no submissions; nothing
Listings ==
    {<<AssessmentsCsv(m), StudentAssessmentCsv(s)>> :
        m \in MetaTables, s \in SubTables}
    \cup {<<AssessmentsCsv(m), StudentAssessmentCsv(s), StudentVleCsv(v)>> :
            m \in MetaTables, s \in SubTables, v \in VleTables}
    \cup {<<AssessmentsCsv(NoTable), StudentAssessmentCsv(s)>> : s \in SubTables}
    \cup {<<AssessmentsCsv(m), StudentAssessmentCsv(NoTable)>> : m \in MetaTables}
    \cup {<<o, StudentAssessmentCsv(s)>> :
            o \in {CoursesCsv, GradesCsv}, s \in SubTables}
    \cup {<<AssessmentsCsv(m)>> : m \in MetaTables}
    \cup {<<AssessmentsCsv(m), CoursesCsv>> : m \in MetaTables}
    \cup {<<>>}

\* scraping_data.py:95-96
InitBuild ==
    /\ ServiceOff
    /\ paginated = PaginatedOff
    /\ \E files \in Listings :
          build = [BuildOff EXCEPT !.pc = "start", !.csv_files = files]

NextBuild ==
    \/ BuildLoad \/ BuildCheck \/ BuildNormalize \/ BuildMerge
    \/ BuildAggregate \/ BuildRows \/ BuildLabel \/ BuildWrite

SpecBuild == InitBuild /\ [][NextBuild]_vars

----------------------------------------------------------------------------
(* One call of _get_paginated on its own.                                  *)

\* the servers: one to MaxPages pages of every kind of body and header
Servers ==
    UNION {[1..n -> [body : BodyKinds, link : LinkKinds]] : n \in 1..MaxPages}

\* the parameters of the callers: none, an empty dict, include[] as
\* get_course_assignments documents it, per_page as get_user_courses sets it
CallerParams ==
    {NoParams, Params(<<>>), Params([k \in {"include[]"} |-> 1]),
     Params([k \in {"per_page"} |-> PerPage])}

\* one call of _get_paginated
InitPage ==
    /\ ServiceOff
    /\ build = BuildOff
    /\ \E server \in Servers, params \in CallerParams :
          paginated = PaginatedCall([PaginatedOff EXCEPT !.server = server,
                                                         !.params = params])

NextPage == PaginatedGet

SpecPage == InitPage /\ [][NextPage]_vars

----------------------------------------------------------------------------
(* Properties of the service, checked under Spec.                          *)

\* the step in which route_predict takes a request with an "assignments"
\* field
TakesBatch == predict.pc = "idle" /\ predict'.pc # "idle" /\ predict'.body.has

\* C1: a prediction request with an "assignments" field that finds the model
\* reference empty is answered 503 not-ready at once, whatever its records
\* hold: no scoring failure, no results, no unhandled error.
NotReadyWhileNoModel ==
    [][(TakesBatch /\ SCHEDULE_MODEL.isNone)
         => /\ predict'.pc = "done"
            /\ predict'.resp.kind = "not_ready"
            /\ predict'.resp.code = 503
            /\ predict'.resp.out = <<>>]_vars

\* C1 witness: a not-ready answer to a batch whose records do not normalise
NotReadyForMalformedBatch ==
    /\ predict.pc = "done"
    /\ predict.resp.kind = "not_ready"
    /\ Len(predict.body.assignments) > 0
    /\ NormalizeBatch(predict.body.assignments).raised

\* C2: the file at the artifact path is always absent or completely written.
ArtifactAbsentOrComplete == artifact.state \in {"absent", "complete"}

\* C3: a batch that got past the not-ready check ends in results or in the
\* scoring-failure signal with its details, never in an unhandled error.
FailuresAreScoringFailures ==
    (predict.pc = "done" /\ predict.body.has)
      => /\ predict.resp.kind \in {"ok", "not_ready", "scoring_failure"}
         /\ predict.resp.kind = "scoring_failure" => predict.resp.details

\* the pipelines the training runs so far can have fitted
FittedModels ==
    {PriorModel} \cup
    {Pipeline(r, ExpectedFeatures(c)) : r \in 1..nruns, c \in ServiceDatasets}

\* C4: a batch of n records is answered by n results, the i-th made from the
\* i-th record, or by an error without results.
BatchAllOrNothing ==
    (predict.pc = "done" /\ predict.body.has)
      => LET raw == predict.body.assignments
             out == predict.resp.out
         IN  IF predict.resp.kind = "ok"
             THEN /\ Len(out) = Len(raw)
                  /\ \A i \in 1..Len(raw) :
                        /\ out[i].assignment_id = ResultId(raw[i])
                        /\ out[i].assignment = ResultName(raw[i])
                  /\ \E m \in FittedModels : \A i \in 1..Len(raw) :
                        out[i].predicted_hours
                          = Round2(Estimate(m, NormalizeRecord(raw[i]).row))
             ELSE out = <<>>

\* C4 witness: two different records answered in their order
TwoResultsInOrder ==
    /\ predict.pc = "done"
    /\ predict.resp.kind = "ok"
    /\ Len(predict.resp.out) = 2
    /\ predict.resp.out[1].assignment_id = Num(5)
    /\ predict.resp.out[2].assignment_id = Num(7)
    /\ predict.resp.out[1].predicted_hours # predict.resp.out[2].predicted_hours

\* a step of load_schedule_model for caller c that leaves position pc
LeavesLoad(c, pc) == ld[c].pc = pc /\ ld'[c].pc # pc

\* C8: the reload trigger answers with the path exactly when the artifact
\* existed and was deserialised, in which case the global holds that model;
\* otherwise it answers with the failure signal; it has no third answer.
ReloadReportsLoadOutcome ==
    [][/\ LeavesLoad("reload", "exists")
            => IF artifact.state = "absent"
               THEN ld'["reload"].ret = "none" /\ SCHEDULE_MODEL'.isNone
               ELSE ld'["reload"].pc = "read"
       /\ LeavesLoad("reload", "read")
            => IF artifact.state = "complete"
               THEN /\ ld'["reload"].pc = "assign"
                    /\ ld'["reload"].loaded = artifact.model
               ELSE ld'["reload"].ret = "none" /\ SCHEDULE_MODEL'.isNone
       /\ LeavesLoad("reload", "assign")
            => /\ ld'["reload"].ret = "path"
               /\ SCHEDULE_MODEL' = ld["reload"].loaded
               /\ ~SCHEDULE_MODEL'.isNone
       /\ (reload.pc = "loading" /\ reload'.pc = "done")
            => /\ reload'.resp.kind \in {"reloaded", "reload_failed"}
               /\ reload'.resp.kind = "reloaded" <=> ~ld["reload"].loaded.isNone
               /\ reload'.resp.kind = "reloaded" <=> reload'.path
               /\ reload'.resp.kind = "reloaded" <=> reload'.resp.code = 200]_vars

\* C8 witness: the failure signal for an artifact that is cut short
ReloadFailsOnPartialArtifact ==
    /\ reload.pc = "done"
    /\ reload.resp.kind = "reload_failed"
    /\ artifact.state = "partial"

\* C9: the model reference changes only in a step of load_schedule_model,
\* which stores None or the whole object it deserialised; the prediction
\* route never changes it.
ModelChangesOnlyInLoad ==
    [][SCHEDULE_MODEL' # SCHEDULE_MODEL
         => /\ \E c \in LoadCallers :
                  /\ ld[c].pc \in {"exists", "read", "assign"}
                  /\ ld'[c].pc = "ret"
                  /\ \/ SCHEDULE_MODEL' = None
                     \/ ld[c].pc = "assign" /\ SCHEDULE_MODEL' = ld[c].loaded
            /\ predict' = predict]_vars

\* C9 witness: a prediction that failed in scoring, the model still loaded
ModelKeptAfterScoringFailure ==
    /\ predict.pc = "done"
    /\ predict.resp.kind = "scoring_failure"
    /\ ~SCHEDULE_MODEL.isNone

----------------------------------------------------------------------------
(* Properties of input normalisation and of the results, checked under     *)
(* SpecPredict.                                                            *)

\* the request has been normalised: it got past the two early returns
Normalised ==
    /\ predict.pc \in {"score", "done"}
    /\ predict.body.has
    /\ predict.resp.kind # "not_ready"

\* the request has feature rows: no float() raised
HasRows == Normalised /\ predict.resp.kind # "unhandled"

\* record a with the value of its alias key moved under the canonical key
Moved(a, canon, alias) == [a EXCEPT ![canon] = a[alias], ![alias] = AbsentV]

AliasPairs == {<<"weight", "weight_percent">>,
               <<"vle_count_total", "vle_count">>,
               <<"assessment_type", "type">>}

\* the number a numeric feature is resolved to from the keys canon and alias
\* when the one that counts holds a number or both are missing
NumberResolved(a, canon, alias, got) ==
    /\ a[canon].t = "num" => got = Fin(a[canon].n)
    /\ (a[canon].t = "absent" /\ a[alias].t = "num") => got = Fin(a[alias].n)
    /\ (a[canon].t = "absent" /\ a[alias].t = "absent") => got = Fin(0)

\* C5: weight, vle_count_total and assessment_type are taken from the
\* canonical key, else from the alias key, else are 0.0, 0 and "unknown";
\* a record that holds a value under the alias key is normalised to the
\* same rows, and is answered with the same hours, as the record that holds
\* that value under the canonical key.
AliasKeysNormalizeAlike ==
    Normalised =>
      LET raw == predict.body.assignments
          out == predict.resp.out
      IN  \A i \in 1..Len(raw) :
            /\ \A p \in AliasPairs :
                 (raw[i][p[1]].t = "absent" /\ raw[i][p[2]].t # "absent")
                   => LET twin == NormalizeBatch(
                                    [raw EXCEPT ![i] = Moved(raw[i], p[1], p[2])])
                      IN  /\ twin.raised <=> predict.resp.kind = "unhandled"
                          /\ ~twin.raised => predict.rows = twin.rows
                          /\ predict.resp.kind = "ok"
                               => \A j \in 1..Len(raw) :
                                    out[j].predicted_hours
                                      = Round2(Estimate(PriorModel, twin.rows[j]))
            /\ HasRows =>
                 LET a == raw[i]
                     row == predict.rows[i]
                 IN  /\ NumberResolved(a, "weight", "weight_percent", row.weight)
                     /\ NumberResolved(a, "vle_count_total", "vle_count",
                                       row.vle_count_total)
                     /\ Truthy(a["assessment_type"])
                          => row.assessment_type = a["assessment_type"]
                     /\ (a["assessment_type"].t = "absent" /\ Truthy(a["type"]))
                          => row.assessment_type = a["type"]
                     /\ (a["assessment_type"].t = "absent" /\ a["type"].t = "absent")
                          => row.assessment_type = Str("unknown")

\* C5 witness: a weight given as weight_percent only is scored as that weight
WeightPercentScored ==
    /\ predict.pc = "done"
    /\ predict.resp.kind = "ok"
    /\ \E i \in 1..Len(predict.rows) :
          /\ predict.body.assignments[i]["weight"].t = "absent"
          /\ predict.body.assignments[i]["weight_percent"] = Num(20)
          /\ predict.rows[i].weight = Fin(20)

\* a record provides a key when it holds a value other than null under it
Provides(a, key) == a[key].t \notin {"absent", "null"}

\* C6: past_avg_score is the value under the first of past_avg_score,
\* past_score, student_past_avg that the record provides, 50.0 when it
\* provides none; a provided 0 stays 0.
PastScoreIsFirstProvided ==
    HasRows =>
      \A i \in 1..Len(predict.rows) :
        LET a == predict.body.assignments[i]
            first == IF Provides(a, "past_avg_score") THEN a["past_avg_score"]
                     ELSE IF Provides(a, "past_score") THEN a["past_score"]
                     ELSE IF Provides(a, "student_past_avg")
                          THEN a["student_past_avg"]
                     ELSE Num(50)
        IN  Float(first).ok => predict.rows[i].past_avg_score = Float(first).f

\* the value under the first key of keys whose value is true in Python (not
\* missing, null, 0 or ""); when there is none, the value under the last
\* key, null if it is missing
FirstNonEmpty(a, keys) ==
    IF \E j \in 1..Len(keys) : Truthy(a[keys[j]])
    THEN a[keys[CHOOSE j \in 1..Len(keys) :
                  /\ Truthy(a[keys[j]])
                  /\ \A k \in 1..(j - 1) : ~Truthy(a[keys[k]])]]
    ELSE IF a[keys[Len(keys)]].t = "absent" THEN NullV
    ELSE a[keys[Len(keys)]]

\* C7: the i-th result carries, unchanged, the identifier of the i-th record
\* taken from assignment_id, then id, then assignment, and its name taken
\* from assignment, then name, then assignment_name, where a key counts
\* when its value is not missing, null, 0 or empty.
ResultsCarryIdAndName ==
    (predict.pc = "done" /\ predict.resp.kind = "ok")
      => LET raw == predict.body.assignments
             out == predict.resp.out
         IN  /\ Len(out) = Len(raw)
             /\ \A i \in 1..Len(raw) :
                  /\ out[i].assignment_id
                       = FirstNonEmpty(raw[i], <<"assignment_id", "id", "assignment">>)
                  /\ out[i].assignment
                       = FirstNonEmpty(raw[i], <<"assignment", "name", "assignment_name">>)

\* C7 witness: the second of two results takes its identifier and its name
\* from the fallback keys of the second record
FallbackIdAndNameCarried ==
    /\ predict.pc = "done"
    /\ predict.resp.kind = "ok"
    /\ Len(predict.resp.out) = 2
    /\ predict.body.assignments[2]["assignment_id"].t = "absent"
    /\ predict.body.assignments[2]["assignment"].t = "absent"
    /\ predict.resp.out[2].assignment_id = Num(12)
    /\ predict.resp.out[2].assignment = Str("Lab")
    /\ predict.resp.out[1].assignment_id = Num(7)

----------------------------------------------------------------------------
(* Properties of a training run, checked under SpecTrain.                  *)

CandidateSet == {"weight", "vle_count_total", "past_avg_score", "assessment_type"}

\* the run of the training thread has read its CSV
HasDataset == train.pc \notin {"idle", "find", "read"} /\ train.data_fp # 0

\* run r has left nothing on disk or in the global
LeftNothing(r) ==
    /\ artifact.state = "absent" \/ artifact.model.run # r
    /\ metricsFile.state = "absent" \/ metricsFile.run # r
    /\ SCHEDULE_MODEL.isNone \/ SCHEDULE_MODEL.run # r

\* C10: the features of a run are exactly the candidate columns its dataset
\* holds, in the order of the list; a dataset without the label column or
\* without any candidate column ends the run in an error before anything is
\* fitted or written.
TrainingUsesPresentCandidates ==
    HasDataset =>
      IF "assignment_hours" \notin train.cols \/ train.cols \cap CandidateSet = {}
      THEN /\ train.pc = "done"
           /\ train.resp.kind = "train_failed"
           /\ ~train.fitted
           /\ LeftNothing(train.run)
      ELSE /\ {train.features[i] : i \in 1..Len(train.features)}
                = train.cols \cap CandidateSet
           /\ Len(train.features) = Cardinality(train.cols \cap CandidateSet)
           /\ \A i \in 1..Len(train.features), j \in 1..Len(Candidates),
                 k \in 1..Len(train.features), l \in 1..Len(Candidates) :
                 (train.features[i] = Candidates[j]
                    /\ train.features[k] = Candidates[l] /\ i < k) => j < l

\* C10 witness: a run over a dataset with features and no label has failed
TrainingFailedWithoutLabel ==
    /\ train.pc = "done"
    /\ train.data_fp # 0
    /\ "assignment_hours" \notin train.cols
    /\ train.cols \cap CandidateSet # {}
    /\ train.resp.kind = "train_failed"

----------------------------------------------------------------------------
(* Properties of the best-effort steps and of the report, checked under    *)
(* SpecFit.                                                                *)

\* the step in which the run of the training thread ends in an error
RunFails == train.resp = NoResp /\ train'.resp.kind = "train_failed"

\* the step in which the run writes its report
WritesReport == train.pc = "metrics" /\ train'.pc # "metrics"

\* C11: once split, fit and evaluation have returned, a failure of
\* cross-validation or of the importance extraction does not end the run:
\* the run goes on to write the artifact, the only step that can still fail
\* it, and its report is written over the complete artifact with
\* cv_r2_mean/cv_r2_std present exactly if cross-validation returned and
\* feature_importances present exactly if the extraction returned.
BestEffortStepsNeverAbort ==
    [][/\ (train.pc = "fit" /\ train'.fitted)
            => (train'.pc = "dump" /\ train'.resp = NoResp)
       /\ (train.fitted /\ RunFails) => train.pc = "dumping"
       /\ WritesReport
            => /\ train.fitted
               /\ artifact = CompleteFile(Pipeline(train.run, train.features))
               /\ metricsFile'.state = "complete"
               /\ metricsFile'.run = train.run
               /\ metricsFile'.cv = train.cv
               /\ metricsFile'.importances = train.fi]_vars

\* C11 witness: a run without cross-validation scores and without
\* importances has answered "trained" with its report, over its artifact
TrainedWithoutCvAndImportances ==
    /\ train.pc = "done"
    /\ train.resp.kind = "trained"
    /\ ~train.cv /\ ~train.fi
    /\ train.metrics.run = train.run
    /\ ~train.metrics.cv /\ ~train.metrics.importances
    /\ artifact = CompleteFile(Pipeline(train.run, train.features))

\* C12: the report changes only in the step in which a run writes it
\* (train_model.py:165-166), and that step leaves exactly the record of that
\* run: its data file, features, cross-validation and importance entries,
\* whatever the report held before. So the report always holds the record of
\* the last run that got to write it.
ReportIsLastWrittenRecord ==
    [][/\ metricsFile' # metricsFile => WritesReport
       /\ WritesReport
            => metricsFile' = [state |-> "complete", run |-> train.run,
                               data_file |-> train.data_fp,
                               features |-> train.features,
                               cv |-> train.cv, importances |-> train.fi]]_vars

\* C12 witness: the second run, over the other data file and a dataset with
\* one feature, without cross-validation scores or importances, has left
\* its own record and nothing of the report it found
ReportReplacedByLeanerRun ==
    /\ train.pc = "done"
    /\ train.run = 2
    /\ metricsFile = [state |-> "complete", run |-> 2, data_file |-> 2,
                      features |-> <<"vle_count_total">>,
                      cv |-> FALSE, importances |-> FALSE]
    /\ artifact.state = "complete"

----------------------------------------------------------------------------
(* Properties of the proxy label, checked under SpecProxy.                 *)

\* line 296 has run
Labelled == build.pc \in {"write", "done"}

\* the row of df_feat with another weight, click count or past score
WithWeight(r, w) == [r EXCEPT !.weight = Num(w), !.assignment_hours = AbsentV]
WithClicks(r, v) == [r EXCEPT !.vle_count_total = Num(v), !.assignment_hours = AbsentV]
WithPast(r, p) == [r EXCEPT !.past_avg_score = p, !.assignment_hours = AbsentV]

\* C13: for a weight and a click count of at least 0 and a past score in
\* 0..100 or missing, the label lies between 0.25 and 20.0 hours.
LabelWithinRange ==
    Labelled =>
      \A i \in 1..Len(build.df_feat) :
         LET r == build.df_feat[i]
         IN  (/\ r.weight.n >= 0
              /\ r.vle_count_total.n >= 0
              /\ isna(r.past_avg_score) \/ r.past_avg_score.n \in 0..100)
               => /\ r.assignment_hours.t = "num"
                  /\ r.assignment_hours.n >= FloorHours
                  /\ r.assignment_hours.n <= CapHours

\* C13 witness: a row whose sum lies above 20 hours carries the cap
LabelCapped ==
    /\ Labelled
    /\ \E i \in 1..Len(build.df_feat) :
          LET r == build.df_feat[i]
          IN  /\ RawHours(r.weight.n, r.vle_count_total.n,
                          PastOrDefault(r.past_avg_score)) > CapHours * 10000
              /\ r.assignment_hours = Num(CapHours)

\* C14: with the other two inputs kept, a greater weight never gives fewer
\* hours, a greater click count never gives fewer hours, a greater past
\* score never gives more hours, all after clamping and rounding.
LabelMonotone ==
    Labelled =>
      \A i \in 1..Len(build.df_feat) :
         LET r == build.df_feat[i]
             h == r.assignment_hours.n
         IN  /\ \A w \in ProxyWeights :
                   w >= r.weight.n
                     => compute_hours_proxy(WithWeight(r, w)) >= h
             /\ \A v \in ProxyClicks :
                   v >= r.vle_count_total.n
                     => compute_hours_proxy(WithClicks(r, v)) >= h
             /\ \A p \in ProxyPasts :
                   (~isna(p) /\ ~isna(r.past_avg_score)
                      /\ p.n >= r.past_avg_score.n)
                     => compute_hours_proxy(WithPast(r, p)) <= h

\* C14 witness: a labelled row for which a greater weight and a greater
\* click count give more hours and a greater past score gives fewer
LabelStrictlyMoves ==
    /\ Labelled
    /\ LET r == build.df_feat[1]
           h == r.assignment_hours.n
       IN  /\ r.weight = Num(10) /\ r.vle_count_total = Num(5)
           /\ r.past_avg_score = Num(50)
           /\ compute_hours_proxy(WithWeight(r, 100)) > h
           /\ compute_hours_proxy(WithClicks(r, 100)) > h
           /\ compute_hours_proxy(WithPast(r, Num(78))) < h

\* C15: a row without a past score gets the label of the row with the same
\* weight and click count and a past score of 50.
MissingPastLabelledAsFifty ==
    Labelled =>
      \A i \in 1..Len(build.df_feat) :
         LET r == build.df_feat[i]
         IN  isna(r.past_avg_score)
               => r.assignment_hours
                    = Num(compute_hours_proxy(WithPast(r, Num(50))))

\* C15 witness: a labelled row without a past score whose label is that of
\* a past score of 50 and differs from those of 0 and of 100
MissingPastBetweenExtremes ==
    /\ Labelled
    /\ LET r == build.df_feat[1]
       IN  /\ r.past_avg_score = NaN
           /\ r.assignment_hours.n = compute_hours_proxy(WithPast(r, Num(50)))
           /\ r.assignment_hours.n < compute_hours_proxy(WithPast(r, Num(0)))
           /\ r.assignment_hours.n > compute_hours_proxy(WithPast(r, Num(100)))

\* C16: the row with weight 10, 5 clicks, past score 78 and type "Homework"
\* is labelled 0.25 hours.
ExampleRowLabelledAtFloor ==
    Labelled =>
      \A i \in 1..Len(build.df_feat) :
         LET r == build.df_feat[i]
         IN  (/\ r.weight = Num(10)
              /\ r.vle_count_total = Num(5)
              /\ r.past_avg_score = Num(78)
              /\ r.assessment_type = Str("Homework"))
               => r.assignment_hours = Num(FloorHours)

\* the labelled row of the example
IsExampleRow(r) ==
    /\ r.weight = Num(10)
    /\ r.vle_count_total = Num(5)
    /\ r.past_avg_score = Num(78)
    /\ r.assessment_type = Str("Homework")

\* C16, amended: the row with weight 10, 5 clicks, past score 78 and type
\* "Homework" is labelled 1.78 hours; its sum, 0.75 + 0.6 + 0.627 - 0.195,
\* lies between the floor and the cap and is not clamped.
ExampleRowLabelledUnclamped ==
    Labelled =>
      \A i \in 1..Len(build.df_feat) :
         LET r == build.df_feat[i]
             raw == RawHours(10, 5, 78)
         IN  IsExampleRow(r)
               => /\ r.assignment_hours = Num(178)
                  /\ raw > FloorHours * 10000
                  /\ raw < CapHours * 10000
                  /\ Clamp(raw) = raw

\* C16 witness: the example row has been labelled
ExampleRowLabelled ==
    /\ Labelled
    /\ IsExampleRow(build.df_feat[1])
    /\ build.df_feat[1].assignment_hours.t = "num"

----------------------------------------------------------------------------
(* Properties of the feature builder, checked under SpecBuild.             *)

\* the files of the listing whose names the keywords of a core table pick
Named(files, include, exclude) ==
    {i \in 1..Len(files) :
       \/ \E inc \in include : IsExact(inc, files[i].name)
       \/ Matches(files[i].name, include, exclude)}

\* no file is named for the table, or none that is can be read
CoreTableMissing(files, include, exclude) ==
    \A i \in Named(files, include, exclude) : files[i].table.isNone

\* the script is past the check of scraping_data.py:139
PastCheck == build.pc \notin {"off", "start", "check"}

\* C17: where no file is named for the assessment metadata or for the
\* submissions, or the file cannot be read, the script exits at the check
\* with its error and writes no dataset.
MissingCoreTableAborts ==
    (/\ PastCheck
     /\ \/ CoreTableMissing(build.csv_files, AssessmentsInclude, AssessmentsExclude)
        \/ CoreTableMissing(build.csv_files, StudentAssessInclude, {}))
      => /\ build.pc = "exit"
         /\ build.error = "SystemExit"
         /\ ~build.out.written

\* the rows of merged that have both identifiers
Identified ==
    {i \in 1..Len(build.merged.rows) :
       /\ build.merged.rows[i]["id_student"].t = "num"
       /\ build.merged.rows[i]["id_assessment"].t = "num"}

\* C18: the dataset holds exactly the joined rows that have a student and an
\* assessment identifier, each once, whatever else they miss.
RowsKeptIffIdentified ==
    build.pc = "done" =>
      LET rows == build.merged.rows
          out == build.out.rows
      IN  /\ build.out.written
          /\ Len(out) = Cardinality(Identified)
          /\ \A j \in 1..Len(out) :
                out[j].student_id.t = "num" /\ out[j].assessment_id.t = "num"
          /\ \A i \in Identified :
                \E j \in 1..Len(out) :
                   /\ out[j].student_id = rows[i]["id_student"]
                   /\ out[j].assessment_id = rows[i]["id_assessment"]
                   /\ out[j].score = rows[i]["score"]
                   /\ out[j].assessment_type = GetCell(rows[i], "assessment_type")

\* C18 witness: the dataset holds a row without score, type and weight, and
\* leaves out a row without student and a row without assessment
SparseRowKept ==
    /\ build.pc = "done"
    /\ \E j \in 1..Len(build.out.rows) :
          /\ build.out.rows[j].score = NaN
          /\ build.out.rows[j].assessment_type = NaN
          /\ \E i \in Identified :
                /\ build.merged.rows[i]["weight"] = NaN
                /\ build.merged.rows[i]["id_student"] = build.out.rows[j].student_id
    /\ \E i \in 1..Len(build.df_feat) : build.df_feat[i].student_id = NaN
    /\ \E i \in 1..Len(build.df_feat) : build.df_feat[i].assessment_id = NaN
    /\ Len(build.out.rows) < Len(build.df_feat)

\* the rows of the dataset for student s and assessment a
RowsOfPair(s, a) ==
    {j \in 1..Len(build.out.rows) :
       build.out.rows[j].student_id = s /\ build.out.rows[j].assessment_id = a}

\* C19: no pair of student and assessment is on two rows of the dataset.
OneRowPerPair ==
    build.out.written =>
      \A i, j \in 1..Len(build.out.rows) :
         (/\ build.out.rows[i].student_id = build.out.rows[j].student_id
          /\ build.out.rows[i].assessment_id = build.out.rows[j].assessment_id)
           => i = j

\* the identifiers on the rows of a table that are not missing
CellsOf(df, col) == {df.rows[i][col] : i \in 1..Len(df.rows)} \ {NaN}

\* C19, amended: a pair of student and assessment has as many rows in the
\* dataset as the submissions have rows for it, times the number of
\* metadata rows for the assessment where there are any; so a pair submitted
\* once whose assessment is described at most once is on one row, and
\* repeated metadata or submissions show as repeated rows.
RowsPerPairAsJoined ==
    build.out.written =>
      LET sub == build.student_assess
          meta == build.assessments
      IN  \A s \in CellsOf(sub, "id_student"), a \in CellsOf(sub, "id_assessment") :
             LET submitted == {i \in 1..Len(sub.rows) :
                                 /\ sub.rows[i]["id_student"] = s
                                 /\ sub.rows[i]["id_assessment"] = a}
                 described == {m \in 1..Len(meta.rows) :
                                 meta.rows[m]["id_assessment"] = a}
             IN  Cardinality(RowsOfPair(s, a))
                   = Cardinality(submitted) * Max(1, Cardinality(described))

\* C19 witness: one submission of student 7 for assessment 1, described on
\* two metadata rows, is on two rows of the dataset, one per type
PairOnTwoRows ==
    /\ build.pc = "done"
    /\ Len(build.student_assess.rows) = 3
    /\ Cardinality(RowsOfPair(Num(7), Num(1))) = 2
    /\ \E i, j \in RowsOfPair(Num(7), Num(1)) :
          /\ build.out.rows[i].assessment_type = Str("TMA")
          /\ build.out.rows[j].assessment_type = Str("CMA")

\* the first of the three names of the assessment identifier among cols
FirstAlias(cols) ==
    IF "id_assessment" \in cols THEN "id_assessment"
    ELSE IF "id" \in cols THEN "id"
    ELSE IF "assessment_id" \in cols THEN "assessment_id"
    ELSE ""

\* the renames of scraping_data.py:173-197 are done
Reconciled ==
    \/ build.pc \in {"merge", "aggregate", "rows", "label", "write", "done"}
    \/ build.pc = "exit" /\ build.error # "SystemExit"

\* table df holds the identifiers of the table raw under the canonical name
HasCanonicalId(df, raw) ==
    /\ "id_assessment" \in df.cols
    /\ \A i \in 1..Len(df.rows) :
          df.rows[i]["id_assessment"] = raw.rows[i][FirstAlias(raw.cols)]

\* C20: where each of the two tables, read from a file named for it, names
\* the assessment identifier by one of id_assessment, id, assessment_id,
\* both come out of the renames with the first of these they hold as
\* id_assessment, and the join is made.
AliasReconciledInBothTables ==
    Reconciled =>
      LET files == build.csv_files
          rawA == files[build.assessments_fp].table
          rawS == files[build.student_assess_fp].table
      IN  (/\ ~CoreTableMissing(files, AssessmentsInclude, AssessmentsExclude)
           /\ ~CoreTableMissing(files, StudentAssessInclude, {})
           /\ FirstAlias(rawA.cols) # ""
           /\ FirstAlias(rawS.cols) # "")
            => /\ HasCanonicalId(build.assessments, rawA)
               /\ HasCanonicalId(build.student_assess, rawS)
               /\ build.pc # "merge" => ~build.merged.isNone

----------------------------------------------------------------------------
(* The aggregates of the feature builder, under SpecBuild.                 *)

\* the first click column of the priority list among cols, "" for none
ActivityColumn(cols) ==
    IF "sum_click" \in cols THEN "sum_click"
    ELSE IF "sumclick" \in cols THEN "sumclick"
    ELSE IF "clicks" \in cols THEN "clicks"
    ELSE IF "activity" \in cols THEN "activity"
    ELSE IF "count" \in cols THEN "count"
    ELSE ""

\* the header studentVle names the student by, "" where the aggregation
\* finds none and gives the table up
EngagementStudentColumn(cols) ==
    IF "id_student" \in cols THEN "id_student"
    ELSE IF "studentid" \in cols THEN "studentid"
    ELSE ""

\* the engagement of student s as the studentVle rows read have it
EngagementOf(s) ==
    LET vle == build.student_vle
        sid == EngagementStudentColumn(vle.cols)
        col == ActivityColumn(vle.cols)
        own == SelectSeq(vle.rows, LAMBDA r : r[sid] = s)
    IN  IF vle.isNone \/ sid = "" THEN 0
        ELSE SumOf([i \in 1..Len(own) |-> IF col = "" THEN 1 ELSE own[i][col].n])

ScoresOf(s) ==
    LET own == SelectSeq(build.student_assess.rows,
                         LAMBDA r : r["id_student"] = s /\ r["score"].t = "num")
    IN  [i \in 1..Len(own) |-> own[i]["score"].n]

\* C22: every row of the dataset carries as past_avg_score the mean of the
\* scores that are not missing over all submission rows of its student, and
\* 0, not a missing value, where all of them are missing.
PastAveraged ==
    build.out.written =>
      \A j \in 1..Len(build.out.rows) :
         LET past == build.out.rows[j].past_avg_score
             scores == ScoresOf(build.out.rows[j].student_id)
         IN  /\ past.t = "num"
             /\ past.n * Max(1, Len(scores)) = SumOf(scores)

\* C22 witness: student 7 with a score of 80 and a submission without score
\* has 80, student 8, without any score, has 0
MissingScoresLeftOut ==
    /\ build.pc = "done"
    /\ \E j \in 1..Len(build.out.rows) :
          /\ build.out.rows[j].student_id = Num(7)
          /\ build.out.rows[j].score = NaN
          /\ build.out.rows[j].past_avg_score = Num(80)
    /\ \E j \in 1..Len(build.out.rows) :
          /\ build.out.rows[j].student_id = Num(8)
          /\ build.out.rows[j].past_avg_score = Num(0)

\* C29: no row of the dataset misses past_avg_score: the student of every row
\* written is a student of the submissions, so has an average, 0 where all
\* the scores are missing; the rows labelled with a missing average are the
\* rows without student, and these are not written.
WrittenRowsHavePast ==
    build.out.written =>
      /\ \A j \in 1..Len(build.out.rows) :
            /\ ~isna(build.out.rows[j].past_avg_score)
            /\ \E i \in 1..Len(build.student_assess.rows) :
                  build.student_assess.rows[i]["id_student"]
                    = build.out.rows[j].student_id
      /\ \A i \in 1..Len(build.df_feat) :
            isna(build.df_feat[i].past_avg_score)
              => isna(build.df_feat[i].student_id)

\* C29 witness: a row without student was labelled with a missing average
\* and left out, and a row of a student without any score is written with 0
MissingPastOnlyOnDroppedRow ==
    /\ build.pc = "done"
    /\ \E i \in 1..Len(build.df_feat) :
          /\ build.df_feat[i].past_avg_score = NaN
          /\ build.df_feat[i].student_id = NaN
          /\ build.df_feat[i].assignment_hours.t = "num"
    /\ \E j \in 1..Len(build.out.rows) :
          /\ build.out.rows[j].score = NaN
          /\ build.out.rows[j].past_avg_score = Num(0)
    /\ Len(build.out.rows) < Len(build.df_feat)

----------------------------------------------------------------------------
(* Explicit nulls in prediction input, under SpecPredict.                  *)

\* the keys the normalisation reads for the four features
AliasFields == {"weight", "weight_percent", "vle_count_total", "vle_count",
                "past_avg_score", "past_score", "student_past_avg",
                "assessment_type", "type"}

\* C30: a record holding an explicit null under one of the keys read for the
\* features is normalised as the record without that key: the same rows,
\* and no exception that the record without the key does not raise.
NullNormalizedAsAbsent ==
    Normalised =>
      LET raw == predict.body.assignments
      IN  \A i \in 1..Len(raw) :
             \A f \in AliasFields :
                raw[i][f].t = "null"
                  => LET twin == NormalizeBatch(
                                   [raw EXCEPT ![i] = [raw[i] EXCEPT ![f] = AbsentV]])
                     IN  /\ twin.raised <=> predict.resp.kind = "unhandled"
                         /\ ~twin.raised => predict.rows = twin.rows

----------------------------------------------------------------------------
(* Training and the loaded model, under SpecDeploy.                        *)

\* the training request has been answered with success and the answer is
\* not yet followed by another training request
TrainedReported == train.pc = "done" /\ train.resp.kind = "trained"

\* C23: once /api/train has answered with success, SCHEDULE_MODEL is the
\* pipeline that run dumped, and a prediction request with assignments that
\* arrives then is not answered not-ready.
TrainedModelServed ==
    [][TrainedReported
         => /\ SCHEDULE_MODEL = Pipeline(train.run, train.features)
            /\ (predict.pc = "idle" /\ predict'.pc # "idle" /\ predict'.body.has)
                 => predict'.resp.kind # "not_ready"]_vars

----------------------------------------------------------------------------
(* Pagination, under SpecPage.                                             *)

\* page k of the server announces a next page
AnnouncesNext(server, k) == server[k].link \in {"next", "bare"}

\* the pages that announce no next page
FinalPages(server) == {k \in 1..Len(server) : ~AnnouncesNext(server, k)}

\* what page k adds to the result
PageItems(server, k) ==
    CASE server[k].body = "list" -> <<Item(k, 1), Item(k, 2)>>
      [] server[k].body = "empty" -> <<>>
      [] server[k].body = "object" -> <<PageObject(k)>>

RECURSIVE ItemsUpTo(_, _)
ItemsUpTo(server, n) ==
    IF n = 0 THEN <<>> ELSE ItemsUpTo(server, n - 1) \o PageItems(server, n)

\* C24: a call that returns has requested the pages from the first up to
\* the first one without a Link header or without a next link, each once and
\* in order, returns their items in that order, the object of a page that
\* holds no list as one item, and has sent the caller's parameters with the
\* first request and none with the others.
PagesFollowedInOrder ==
    paginated.pc = "returned" =>
      LET p == paginated
          final == FinalPages(p.server)
          n == MinOf(final)
      IN  /\ final # {}
          /\ p.results = ItemsUpTo(p.server, n)
          /\ Len(p.sent) = n
          /\ \A k \in 1..n : p.sent[k].url = PageUrl(k)
          /\ ~p.sent[1].params.isNone
          /\ "per_page" \in DOMAIN p.sent[1].params.dict
          /\ ~p.params.isNone =>
                \A key \in DOMAIN p.params.dict :
                   /\ key \in DOMAIN p.sent[1].params.dict
                   /\ p.sent[1].params.dict[key] = p.params.dict[key]
          /\ \A k \in 2..n : p.sent[k].params = NoParams

\* C24 witness: three pages followed, the second holding an object, called
\* with include[]
ThreePagesFollowed ==
    /\ paginated.pc = "returned"
    /\ Len(paginated.sent) = 3
    /\ paginated.server[2].body = "object"
    /\ paginated.server[2].link = "bare"
    /\ paginated.server[3].link = "prev"
    /\ paginated.results = <<Item(1, 1), Item(1, 2), PageObject(2),
                             Item(3, 1), Item(3, 2)>>
    /\ ~paginated.params.isNone
    /\ "include[]" \in DOMAIN paginated.params.dict

\* the run is before its persistence step: train_model.py:46-146
BeforeDump == train.pc \in {"find", "read", "fit"}

\* C27: a training run that fails before it dumps the pipeline, for want of
\* a data file, of the label column, of any feature column, or by an error
\* in fitting and evaluation, changes neither the artifact, nor the metrics
\* report, nor SCHEDULE_MODEL, in no step from the request to the failure,
\* and /api/train answers with the failure signal without a load attempt.
FailedRunLeavesAllAsBefore ==
    [][/\ (train.pc = "idle" \/ BeforeDump) /\ (train'.pc = "done" \/ BeforeDump')
            => /\ artifact' = artifact
               /\ metricsFile' = metricsFile
               /\ MODEL_OUT_DIR' = MODEL_OUT_DIR
               /\ SCHEDULE_MODEL' = SCHEDULE_MODEL
       /\ (BeforeDump /\ train'.pc = "done")
            => /\ train'.resp.kind = "train_failed"
               /\ train'.resp.code = 500
               /\ ld'["train"] = LoadOff]_vars

\* C27 witness: a run that failed in fitting, with the earlier artifact, its
\* report and the model loaded from it in place
FitFailedWithPriorModelServed ==
    /\ train.pc = "done"
    /\ train.resp.kind = "train_failed"
    /\ train.features # <<>>
    /\ ~train.fitted
    /\ artifact = CompleteFile(PriorModel)
    /\ metricsFile = PriorMetrics
    /\ SCHEDULE_MODEL = PriorModel

----------------------------------------------------------------------------
(* Loads racing requests, under Spec.                                      *)

\* C25: a prediction request that got past the not-ready check is scored by
\* a loaded model: the step that scores it never finds SCHEDULE_MODEL empty,
\* which would end the request in a scoring failure for want of a model.
ScoredByLoadedModel ==
    [][(predict.pc = "score" /\ predict'.pc = "done")
         => ~SCHEDULE_MODEL.isNone]_vars

----------------------------------------------------------------------------
(* Load attempts, under SpecLoad.                                          *)

\* C26: when a load attempt ends, at start-up, in a reload or after
\* training, SCHEDULE_MODEL holds a model if and only if the attempt
\* returns the path: an attempt that finds no artifact, or one it cannot
\* deserialise, returns None and leaves the global empty, whatever it held.
ModelLoadedIffPathReturned ==
    [][\A c \in LoadCallers :
          (ld[c].pc \in {"exists", "read", "assign"} /\ ld'[c].pc = "ret")
            => /\ ld'[c].ret \in {"path", "none"}
               /\ ~SCHEDULE_MODEL'.isNone <=> ld'[c].ret = "path"
               /\ ld'[c].ret = "none"
                    <=> (artifact.state # "complete" /\ ld[c].pc # "assign")]_vars

\* C26 witness: the start-up load returned the path, and a reload that met
\* a half-written artifact returned None and left the global empty
ReloadClearedLoadedModel ==
    /\ ld["main"].ret = "path"
    /\ ld["reload"].pc = "ret"
    /\ ld["reload"].ret = "none"
    /\ ld["train"].pc = "off"
    /\ artifact.state = "partial"
    /\ SCHEDULE_MODEL.isNone

----------------------------------------------------------------------------
(* The report and the artifact, under SpecFit.                             *)

\* C28: while no training run is in progress the metrics report describes
\* the artifact beside it: both are absent, or both are whole and come from
\* the same run with the same features, also after a run that failed while
\* persisting.
ReportDescribesArtifact ==
    train.pc \in {"idle", "done"} =>
      \/ artifact.state = "absent" /\ metricsFile.state = "absent"
      \/ /\ artifact.state = "complete"
         /\ metricsFile.state = "complete"
         /\ metricsFile.run = artifact.model.run
         /\ metricsFile.features = artifact.model.features

====
